---- MODULE Spec2Model ----
(***************************************************************************)
(* A model of the Oxide chess engine: the bitboard position (Board), its   *)
(* make_move / make_null_move, the pseudo-legal move generator with the    *)
(* is_legal filter, and the aspiration-window loop of the search.          *)
(*                                                                         *)
(* A BitBoard (u64) is the set of the indices of its set bits; &, |, ^ and *)
(* ! are intersection, union, symmetric difference and complement in 0..63.*)
(* The Zobrist hash (u64) is the set of the keys XORed into it an odd      *)
(* number of times: the keys are taken as independent, so two hashes are   *)
(* equal iff they are the XOR of the same keys.                            *)
(***************************************************************************)
EXTENDS Integers, Sequences, FiniteSets, TLC

VARIABLES board, played, last, ref_halfmoves, ref_rights, asp, data, obs, picker, table, iter

vars == <<board, played, last, ref_halfmoves, ref_rights, asp, data, obs, picker, table, iter>>

(***************************************************************************)
(* Bounds of the model                                                     *)
(***************************************************************************)
MaxPly == 3

(***************************************************************************)
(* Squares and bitboards                                                   *)
(***************************************************************************)
Squares == 0..63
EMPTY == {}

Min(S) == CHOOSE x \in S : \A y \in S : x <= y
Max(S) == CHOOSE x \in S : \A y \in S : x >= y

Xor(A, B) == (A \ B) \cup (B \ A)
Not(A) == Squares \ A

\* BitBoard::lsb: trailing_zeros, which is 64 on the empty board
lsb(bb) == IF bb = {} THEN 64 ELSE Min(bb)
pop_bit(bb, sq) == bb \ {sq}
count_bits(bb) == Cardinality(bb)
to_board(sq) == {sq}

\* the squares of a bitboard in the order of a  while bb != EMPTY { lsb; pop_bit }  loop
RECURSIVE Bits(_)
Bits(bb) == IF bb = {} THEN <<>> ELSE LET s == Min(bb) IN <<s>> \o Bits(bb \ {s})

White == 0
Black == 1
Opp(c) == 1 - c

\* BitBoard::shift: one rank back towards the pawn that would push there
BBShift(bb, colour) ==
    IF colour = White THEN {s - 8 : s \in {t \in bb : t >= 8}}
                      ELSE {s + 8 : s \in {t \in bb : t <= 55}}

START_RANKS == <<8..15, 48..55>>
WHITE_KING_CASTLE == {5, 6}
BLACK_KING_CASTLE == {61, 62}
WHITE_QUEEN_CASTLE == {1, 2, 3}
BLACK_QUEEN_CASTLE == {57, 58, 59}

\* Square::shift::<AMOUNT>: u8 arithmetic, the sign of Black is 255 (wrapping)
SqShift(sq, amount, side) ==
    LET sign == (1 - side * 2) % 256
    IN  (sq + ((amount * sign) % 256)) % 256

from_row_col(row, col) == row * 8 + col
row(sq) == sq \div 8
col(sq) == sq % 8

\* Square::jump_check: None (64 here) when the file or the rank leaves the board
jump_check(sq, rank_delta, file_delta) ==
    LET file == (sq % 8) + rank_delta
        rank == (sq \div 8) + file_delta
    IN  IF file \in 0..7 /\ rank \in 0..7 THEN rank * 8 + file ELSE 64

(***************************************************************************)
(* Pieces: colour * 6 + kind, kinds Pawn..King = 0..5, Empty = 12          *)
(***************************************************************************)
PAWN == 0
KNIGHT == 1
BISHOP == 2
ROOK == 3
QUEEN == 4
KING == 5
Empty == 12

MkPiece(colour, kind) == colour * 6 + kind
PieceColour(p) == p \div 6
PieceIndex(p) == p % 6
WR == MkPiece(White, ROOK)
BR == MkPiece(Black, ROOK)
WP == MkPiece(White, PAWN)
BP == MkPiece(Black, PAWN)

\* Piece::from_fen
PieceFromFen(ch) ==
    CASE ch = "P" -> 0 [] ch = "N" -> 1 [] ch = "B" -> 2 [] ch = "R" -> 3
      [] ch = "Q" -> 4 [] ch = "K" -> 5 [] ch = "p" -> 6 [] ch = "n" -> 7
      [] ch = "b" -> 8 [] ch = "r" -> 9 [] ch = "q" -> 10 [] ch = "k" -> 11

\* Colour::forward
Forward(colour) == IF colour = White THEN 1 ELSE -1

(***************************************************************************)
(* Attack tables (constants.rs)                                            *)
(***************************************************************************)
OnBoard(S) == S \cap Squares
NotFile(sq, files) == (sq % 8) \notin files

PAWN_ATTACKS ==
    [c \in 0..1 |-> [sq \in Squares |->
        IF c = White
        THEN OnBoard((IF NotFile(sq, {0}) THEN {sq + 7} ELSE {})
                     \cup (IF NotFile(sq, {7}) THEN {sq + 9} ELSE {}))
        ELSE OnBoard((IF NotFile(sq, {0}) THEN {sq - 9} ELSE {})
                     \cup (IF NotFile(sq, {7}) THEN {sq - 7} ELSE {}))]]

KNIGHT_ATTACKS ==
    [sq \in Squares |->
        OnBoard((IF NotFile(sq, {0}) THEN {sq + 15, sq - 17} ELSE {})
                \cup (IF NotFile(sq, {7}) THEN {sq + 17, sq - 15} ELSE {})
                \cup (IF NotFile(sq, {0, 1}) THEN {sq + 6, sq - 10} ELSE {})
                \cup (IF NotFile(sq, {6, 7}) THEN {sq + 10, sq - 6} ELSE {}))]

KING_ATTACKS ==
    [sq \in Squares |->
        OnBoard({sq + 8, sq - 8}
                \cup (IF NotFile(sq, {7}) THEN {sq + 1, sq + 9, sq - 7} ELSE {})
                \cup (IF NotFile(sq, {0}) THEN {sq - 1, sq + 7, sq - 9} ELSE {}))]

\* one ray of MASKS: the squares from sq in direction (df, dr) up to the edge
Ray(sq, df, dr) ==
    {((sq \div 8) + k * dr) * 8 + (sq % 8) + k * df :
        k \in {n \in 1..7 : /\ (sq % 8) + n * df \in 0..7
                             /\ (sq \div 8) + n * dr \in 0..7}}

\* dirs of MASKS: (d_lo, d_hi) as (file step, rank step)
DIRS == << <<-1, 0, 1, 0>>, <<0, -1, 0, 1>>, <<-1, -1, 1, 1>>, <<1, -1, -1, 1>> >>

MASKS ==
    [sq \in Squares |-> [i \in 1..4 |->
        LET lo == Ray(sq, DIRS[i][1], DIRS[i][2])
            hi == Ray(sq, DIRS[i][3], DIRS[i][4])
        IN  [lower |-> lo, upper |-> hi, line_ex |-> lo \cup hi]]]

\* u64 wrapping_sub of the single bit 2^k from the word x: the borrow runs from bit k
\* up to the lowest set bit at or above k, or off the top of the word
WrappingSubBit(x, k) ==
    LET above == {b \in x : b >= k}
    IN  IF above = {} THEN x \cup (k..63)
        ELSE LET u == Min(above) IN (x \ {u}) \cup (k..(u - 1))

\* line_attacks without the lower blocker: the subtraction always borrows from bit 0
line_attacks_NoLower(occ, mask) ==
    LET upper == mask.upper \cap occ
        odiff == Xor(upper, WrappingSubBit(upper, 0))
    IN  mask.line_ex \cap odiff

line_attacks(occ, mask) ==
    LET lower == mask.lower \cap occ
        upper == mask.upper \cap occ
        ms1_b == Max(lower \cup {0})
        odiff == Xor(upper, WrappingSubBit(upper, ms1_b))
    IN  mask.line_ex \cap odiff

rook_attacks(occ, sq) == line_attacks(occ, MASKS[sq][1]) \cup line_attacks(occ, MASKS[sq][2])
bishop_attacks(occ, sq) == line_attacks(occ, MASKS[sq][3]) \cup line_attacks(occ, MASKS[sq][4])
queen_attacks(occ, sq) == rook_attacks(occ, sq) \cup bishop_attacks(occ, sq)

BETWEEN ==
    [sq1 \in Squares |-> [sq2 \in Squares |->
        IF sq2 \in rook_attacks({}, sq1)
        THEN rook_attacks({sq2}, sq1) \cap rook_attacks({sq1}, sq2)
        ELSE IF sq2 \in bishop_attacks({}, sq1)
        THEN bishop_attacks({sq2}, sq1) \cap bishop_attacks({sq1}, sq2)
        ELSE {}]]

between(sq1, sq2) == BETWEEN[sq1][sq2]

PINNED_MOVES ==
    [king \in Squares |-> [pinned \in Squares |->
        IF king \in bishop_attacks({}, pinned)
        THEN bishop_attacks({}, king) \cap bishop_attacks({king}, pinned)
        ELSE IF king \in rook_attacks({}, pinned)
        THEN rook_attacks({}, king) \cap rook_attacks({king}, pinned)
        ELSE {}]]

pinned_moves(king_sq, pinned) == PINNED_MOVES[king_sq][pinned]

CASTLE == << <<2, 6>>, <<58, 62>> >>

(***************************************************************************)
(* Castling rights: the u8 flag vector WK|WQ|BK|BQ                         *)
(***************************************************************************)
WK == 8
WQ == 4
BK == 2
BQ == 1
NONE == 0

HasBit(r, b) == (r \div b) % 2 = 1
\* r & !mask on the four flag bits
ClearBits(r, mask) ==
    LET keep(b) == IF HasBit(r, b) /\ ~HasBit(mask, b) THEN b ELSE 0
    IN  keep(8) + keep(4) + keep(2) + keep(1)

\* CastlingRights::from
RECURSIVE CastlingFrom(_)
CastlingFrom(rights) ==
    IF rights = <<"-">> \/ rights = <<>> THEN NONE
    ELSE LET t == Head(rights)
             bit == CASE t = "K" -> WK [] t = "Q" -> WQ [] t = "k" -> BK [] t = "q" -> BQ
             rest == CastlingFrom(Tail(rights))
         IN  IF HasBit(rest, bit) THEN rest ELSE rest + bit

(***************************************************************************)
(* Moves: the packed 16-bit word                                           *)
(***************************************************************************)
Quiet == 0
Castle == 1
DoublePush == 2
KnightPromotion == 4
BishopPromotion == 5
RookPromotion == 6
QueenPromotion == 7
Capture == 8
EnPassant == 9
KnightCapPromo == 12
BishopCapPromo == 13
RookCapPromo == 14
QueenCapPromo == 15

\* the kind kept to three bits
MoveNew_ThreeBits(src, dest, kind) == src + dest * 64 + (kind % 8) * 4096

MoveNew(src, dest, kind) == src + dest * 64 + kind * 4096
get_source(m) == m % 64
get_dest(m) == (m \div 64) % 64
get_type(m) == m \div 4096
MoveNULL == 0

is_promotion(kind) == (kind \div 4) % 2 = 1
is_capture(kind) == (kind \div 8) % 2 = 1
get_promotion(kind, side) == MkPiece(side, <<KNIGHT, BISHOP, ROOK, QUEEN>>[(kind % 4) + 1])

(***************************************************************************)
(* Zobrist keys: PIECE_KEYS[12][64], EP_KEYS[64], CASTLE_KEYS[16], SIDE_KEY*)
(***************************************************************************)
PieceKey(piece, sq) == piece * 64 + sq
EpKey(sq) == 768 + sq
CastleKey(rights) == 832 + rights
SIDE_KEY == 848
ZNULL == {}

hash_piece(h, piece, sq) == Xor(h, {PieceKey(piece, sq)})
hash_enpassant(h, sq) == Xor(h, {EpKey(sq)})
hash_castle(h, rights) == Xor(h, {CastleKey(rights)})
swap_castle(h, old_rights, new_rights) ==
    Xor(Xor(h, {CastleKey(old_rights)}), {CastleKey(new_rights)})
hash_side(h) == Xor(h, {SIDE_KEY})

(***************************************************************************)
(* Board                                                                   *)
(***************************************************************************)
None == -1

BoardNew ==
    [pieces |-> [k \in 0..5 |-> {}],
     sides |-> [c \in 0..1 |-> {}],
     piece_map |-> [sq \in Squares |-> Empty],
     en_passant |-> None,
     castling_rights |-> NONE,
     halfmoves |-> 0,
     side |-> White,
     hash |-> ZNULL,
     checkers |-> {},
     threats |-> {},
     pinned |-> {}]

piece_at(b, sq) == b.piece_map[sq]

set_piece(b, piece, square) ==
    [b EXCEPT !.sides[PieceColour(piece)] = Xor(@, {square}),
              !.pieces[PieceIndex(piece)] = Xor(@, {square}),
              !.piece_map[square] = piece,
              !.hash = hash_piece(@, piece, square)]

\* remove_piece without the piece_map[square] = Piece::Empty assignment
remove_piece_KeepMap(b, square) ==
    LET piece == piece_at(b, square)
    IN  [b EXCEPT !.sides[PieceColour(piece)] = Xor(@, {square}),
                  !.pieces[PieceIndex(piece)] = Xor(@, {square}),
                  !.hash = hash_piece(@, piece, square)]

remove_piece(b, square) ==
    LET piece == piece_at(b, square)
    IN  [b EXCEPT !.sides[PieceColour(piece)] = Xor(@, {square}),
                  !.pieces[PieceIndex(piece)] = Xor(@, {square}),
                  !.piece_map[square] = Empty,
                  !.hash = hash_piece(@, piece, square)]

king_square(b, colour) == lsb(b.pieces[KING] \cap b.sides[colour])

Occ(b) == b.sides[White] \cup b.sides[Black]

UnionOver(S, F(_)) == UNION {F(sq) : sq \in S}

calculate_threats_KingStays(b) ==
    LET attacker == Opp(b.side)
        occ == Occ(b)
        pawns == b.pieces[PAWN] \cap b.sides[attacker]
        rooks == (b.pieces[ROOK] \cup b.pieces[QUEEN]) \cap b.sides[attacker]
        bishops == (b.pieces[BISHOP] \cup b.pieces[QUEEN]) \cap b.sides[attacker]
        knights == b.pieces[KNIGHT] \cap b.sides[attacker]
        king_sq == king_square(b, attacker)
    IN  [b EXCEPT !.threats =
            UNION {PAWN_ATTACKS[attacker][sq] : sq \in pawns}
            \cup UNION {rook_attacks(occ, sq) : sq \in rooks}
            \cup UNION {bishop_attacks(occ, sq) : sq \in bishops}
            \cup UNION {KNIGHT_ATTACKS[sq] : sq \in knights}
            \cup KING_ATTACKS[king_sq]]

calculate_threats(b) ==
    LET attacker == Opp(b.side)
        occ == Xor(Occ(b), to_board(king_square(b, b.side)))
        pawns == b.pieces[PAWN] \cap b.sides[attacker]
        rooks == (b.pieces[ROOK] \cup b.pieces[QUEEN]) \cap b.sides[attacker]
        bishops == (b.pieces[BISHOP] \cup b.pieces[QUEEN]) \cap b.sides[attacker]
        knights == b.pieces[KNIGHT] \cap b.sides[attacker]
        king_sq == king_square(b, attacker)
    IN  [b EXCEPT !.threats =
            UNION {PAWN_ATTACKS[attacker][sq] : sq \in pawns}
            \cup UNION {rook_attacks(occ, sq) : sq \in rooks}
            \cup UNION {bishop_attacks(occ, sq) : sq \in bishops}
            \cup UNION {KNIGHT_ATTACKS[sq] : sq \in knights}
            \cup KING_ATTACKS[king_sq]]

pinned_and_checkers_NoSliders(b) ==
    LET attacker == Opp(b.side)
        king_sq == king_square(b, b.side)
        occ == Occ(b)
        leapers == (KNIGHT_ATTACKS[king_sq] \cap b.pieces[KNIGHT] \cap b.sides[attacker])
                   \cup (PAWN_ATTACKS[b.side][king_sq] \cap b.pieces[PAWN]
                         \cap b.sides[attacker])
        sliders_attacks ==
            ((b.pieces[BISHOP] \cup b.pieces[QUEEN]) \cap b.sides[attacker]
                \cap bishop_attacks({}, king_sq))
            \cup ((b.pieces[ROOK] \cup b.pieces[QUEEN]) \cap b.sides[attacker]
                \cap rook_attacks({}, king_sq))
        blockers(sq) == between(sq, king_sq) \cap occ
    IN  [b EXCEPT
            !.checkers = leapers,
            !.pinned = UNION {blockers(sq) \cap b.sides[b.side] :
                                sq \in {s \in sliders_attacks : count_bits(blockers(s)) = 1}}]

pinned_and_checkers(b) ==
    LET attacker == Opp(b.side)
        king_sq == king_square(b, b.side)
        occ == Occ(b)
        leapers == (KNIGHT_ATTACKS[king_sq] \cap b.pieces[KNIGHT] \cap b.sides[attacker])
                   \cup (PAWN_ATTACKS[b.side][king_sq] \cap b.pieces[PAWN]
                         \cap b.sides[attacker])
        sliders_attacks ==
            ((b.pieces[BISHOP] \cup b.pieces[QUEEN]) \cap b.sides[attacker]
                \cap bishop_attacks({}, king_sq))
            \cup ((b.pieces[ROOK] \cup b.pieces[QUEEN]) \cap b.sides[attacker]
                \cap rook_attacks({}, king_sq))
        blockers(sq) == between(sq, king_sq) \cap occ
    IN  [b EXCEPT
            !.checkers = leapers \cup {sq \in sliders_attacks : blockers(sq) = {}},
            !.pinned = UNION {blockers(sq) \cap b.sides[b.side] :
                                sq \in {s \in sliders_attacks : count_bits(blockers(s)) = 1}}]

(***************************************************************************)
(* make_move, in the order of its steps                                    *)
(***************************************************************************)
\* if let Some(square) = self.en_passant : clear it and XOR its key out
\* the en-passant reset without the hash_enpassant call
ClearEnPassant_KeepKey(b) == [b EXCEPT !.en_passant = None]

\* the en-passant square left in place
ClearEnPassant_Keep(b) == b

ClearEnPassant(b) ==
    IF b.en_passant # None
    THEN [b EXCEPT !.en_passant = None, !.hash = hash_enpassant(@, b.en_passant)]
    ELSE b

is_pawn(p) == p # Empty /\ PieceIndex(p) = PAWN
is_king(p) == p # Empty /\ PieceIndex(p) = KING
is_rook(p) == p # Empty /\ PieceIndex(p) = ROOK

\* halfmoves is a u8: += 1 wraps in the release build the engine is built as
UpdateHalfmoves(b, src_piece, move_type) ==
    [b EXCEPT !.halfmoves =
        IF is_pawn(src_piece) \/ move_type = Capture THEN 0 ELSE (@ + 1) % 256]

UpdateCastling(b, src, src_piece, old_rights) ==
    IF is_king(src_piece)
    THEN LET new_rights == IF PieceColour(src_piece) = White
                           THEN ClearBits(old_rights, WK + WQ)
                           ELSE ClearBits(old_rights, BK + BQ)
         IN  [b EXCEPT !.castling_rights = new_rights,
                       !.hash = swap_castle(@, old_rights, new_rights)]
    ELSE IF is_rook(src_piece)
    THEN LET c == PieceColour(src_piece)
             new_rights ==
                CASE c = White /\ src = 0 -> ClearBits(old_rights, WQ)
                  [] c = White /\ src = 7 -> ClearBits(old_rights, WK)
                  [] c = Black /\ src = 56 -> ClearBits(old_rights, BQ)
                  [] c = Black /\ src = 63 -> ClearBits(old_rights, BK)
                  [] OTHER -> old_rights
         IN  IF new_rights # old_rights
             THEN [b EXCEPT !.castling_rights = new_rights,
                            !.hash = swap_castle(@, old_rights, new_rights)]
             ELSE b
    ELSE b

\* the dispatch with the Capture arm treated like the Quiet arm: the captured
\* piece is never removed from its bitboards
MovePieces_NoRemoval(b, src, dest, src_piece, move_type) ==
    CASE move_type \in {Quiet, DoublePush, Capture} ->
            LET b1 == set_piece(remove_piece(b, src), src_piece, dest)
            IN  IF move_type = DoublePush
                THEN LET ep == SqShift(src, 8, PieceColour(src_piece))
                     IN  [b1 EXCEPT !.en_passant = ep, !.hash = hash_enpassant(@, ep)]
                ELSE b1
      [] move_type = EnPassant ->
            LET captured_pawn_square == SqShift(dest, 8, Opp(PieceColour(src_piece)))
            IN  set_piece(remove_piece(remove_piece(b, captured_pawn_square), src),
                          src_piece, dest)
      [] move_type = Castle ->
            LET is_kingside == col(dest) > col(src)
                rook_src == from_row_col(row(src), IF is_kingside THEN 7 ELSE 0)
                rook_dest == from_row_col(row(src), IF is_kingside THEN 5 ELSE 3)
                rook_piece == piece_at(b, rook_src)
                b1 == remove_piece(remove_piece(b, src), rook_src)
            IN  set_piece(set_piece(b1, src_piece, dest), rook_piece, rook_dest)
      [] OTHER ->
            LET promo_piece == get_promotion(move_type, PieceColour(src_piece))
                b1 == remove_piece(b, src)
                b2 == IF is_capture(move_type) THEN remove_piece(b1, dest) ELSE b1
            IN  set_piece(b2, promo_piece, dest)

MovePieces(b, src, dest, src_piece, move_type) ==
    CASE move_type \in {Quiet, DoublePush} ->
            LET b1 == set_piece(remove_piece(b, src), src_piece, dest)
            IN  IF move_type = DoublePush
                THEN LET ep == SqShift(src, 8, PieceColour(src_piece))
                     IN  [b1 EXCEPT !.en_passant = ep, !.hash = hash_enpassant(@, ep)]
                ELSE b1
      [] move_type = Capture ->
            set_piece(remove_piece(remove_piece(b, dest), src), src_piece, dest)
      [] move_type = EnPassant ->
            LET captured_pawn_square == SqShift(dest, 8, Opp(PieceColour(src_piece)))
            IN  set_piece(remove_piece(remove_piece(b, captured_pawn_square), src),
                          src_piece, dest)
      [] move_type = Castle ->
            LET is_kingside == col(dest) > col(src)
                rook_src == from_row_col(row(src), IF is_kingside THEN 7 ELSE 0)
                rook_dest == from_row_col(row(src), IF is_kingside THEN 5 ELSE 3)
                rook_piece == piece_at(b, rook_src)
                b1 == remove_piece(remove_piece(b, src), rook_src)
            IN  set_piece(set_piece(b1, src_piece, dest), rook_piece, rook_dest)
      [] OTHER ->
            LET promo_piece == get_promotion(move_type, PieceColour(src_piece))
                b1 == remove_piece(b, src)
                b2 == IF is_capture(move_type) THEN remove_piece(b1, dest) ELSE b1
            IN  set_piece(b2, promo_piece, dest)

FlipSide(b) == [b EXCEPT !.side = Opp(@), !.hash = hash_side(@)]

make_move(b, m) ==
    LET src == get_source(m)
        dest == get_dest(m)
        src_piece == piece_at(b, src)
        move_type == get_type(m)
        old_rights == b.castling_rights
        b1 == ClearEnPassant(b)
        b2 == UpdateHalfmoves(b1, src_piece, move_type)
        b3 == UpdateCastling(b2, src, src_piece, old_rights)
        b4 == MovePieces(b3, src, dest, src_piece, move_type)
    IN  pinned_and_checkers(calculate_threats(FlipSide(b4)))

\* the null move counted as a ply of the fifty-move clock, as make_move counts a move
make_null_move_CountsPly(b) ==
    pinned_and_checkers(calculate_threats(
        ClearEnPassant([FlipSide(b) EXCEPT !.halfmoves = (@ + 1) % 256])))

make_null_move(b) ==
    pinned_and_checkers(calculate_threats(ClearEnPassant(FlipSide(b))))

is_attacked_by(b, square, attacker) ==
    LET occ == Occ(b)
    IN  ((KNIGHT_ATTACKS[square] \cap b.pieces[KNIGHT])
         \cup (KING_ATTACKS[square] \cap b.pieces[KING])
         \cup (PAWN_ATTACKS[Opp(attacker)][square] \cap b.pieces[PAWN])
         \cup (rook_attacks(occ, square) \cap (b.pieces[ROOK] \cup b.pieces[QUEEN]))
         \cup (bishop_attacks(occ, square) \cap (b.pieces[BISHOP] \cup b.pieces[QUEEN])))
        \cap b.sides[attacker] # {}

in_check(b) == is_attacked_by(b, king_square(b, b.side), Opp(b.side))

(***************************************************************************)
(* Castle legality and move generation                                     *)
(***************************************************************************)
\* the match of is_castle_legal: (rook_sq, king_pass, king_end, inter_squares, right_bit)
CastleParams(side, dest) ==
    CASE side = White /\ dest = 6 -> <<7, 5, 6, WHITE_KING_CASTLE, WK>>
      [] side = White /\ dest = 2 -> <<0, 3, 2, WHITE_QUEEN_CASTLE, WQ>>
      [] side = Black /\ dest = 62 -> <<63, 61, 62, BLACK_KING_CASTLE, BK>>
      [] side = Black /\ dest = 58 -> <<56, 59, 58, BLACK_QUEEN_CASTLE, BQ>>
      [] OTHER -> <<>>

\* is_castle_legal with only the landing square looked up in threats
is_castle_legal_NoPass(b, dest) ==
    LET p == CastleParams(b.side, dest)
    IN  IF p = <<>> THEN FALSE
        ELSE LET rook_sq == p[1]
                 king_end == p[3]
                 inter_squares == p[4]
                 right_bit == p[5]
                 occ == Occ(b)
                 rights_ok == HasBit(b.castling_rights, right_bit)
                 path_clear == inter_squares \cap occ = {}
                 safe == b.checkers = {} /\ to_board(king_end) \cap b.threats = {}
             IN  IF ~(path_clear /\ rights_ok) THEN FALSE
                 ELSE safe /\ piece_at(b, rook_sq) = (IF b.side = White THEN WR ELSE BR)

is_castle_legal(b, dest) ==
    LET p == CastleParams(b.side, dest)
    IN  IF p = <<>> THEN FALSE
        ELSE LET rook_sq == p[1]
                 king_pass == p[2]
                 king_end == p[3]
                 inter_squares == p[4]
                 right_bit == p[5]
                 occ == Occ(b)
                 rights_ok == HasBit(b.castling_rights, right_bit)
                 path_clear == inter_squares \cap occ = {}
                 safe == b.checkers = {}
                         /\ (to_board(king_pass) \cup to_board(king_end)) \cap b.threats = {}
             IN  IF ~(path_clear /\ rights_ok) THEN FALSE
                 ELSE safe /\ piece_at(b, rook_sq) = (IF b.side = White THEN WR ELSE BR)

RECURSIVE Flatten(_)
Flatten(ss) == IF ss = <<>> THEN <<>> ELSE Head(ss) \o Flatten(Tail(ss))

\* one push per destination, destinations in lsb order
MovesTo(src, dests, kind) ==
    LET ds == Bits(dests) IN [i \in 1..Len(ds) |-> MoveNew(src, ds[i], kind)]

all_slider_moves(b, QUIET, src, occ, attacks) ==
    (IF QUIET THEN MovesTo(src, attacks \cap Not(occ), Quiet) ELSE <<>>)
    \o MovesTo(src, attacks \cap b.sides[Opp(b.side)], Capture)

all_king_moves(b, QUIET, occ) ==
    LET src == lsb(b.pieces[KING] \cap b.sides[b.side])
        attacks == KING_ATTACKS[src]
        castles == [i \in 1..2 |->
                      IF is_castle_legal(b, CASTLE[b.side + 1][i])
                      THEN <<MoveNew(src, CASTLE[b.side + 1][i], Castle)>> ELSE <<>>]
    IN  (IF QUIET THEN MovesTo(src, attacks \cap Not(occ), Quiet) \o Flatten(castles)
                  ELSE <<>>)
        \o MovesTo(src, attacks \cap b.sides[Opp(b.side)], Capture)

all_knight_moves(b, QUIET, occ) ==
    LET srcs == Bits(b.pieces[KNIGHT] \cap b.sides[b.side])
    IN  Flatten([i \in 1..Len(srcs) |->
            (IF QUIET THEN MovesTo(srcs[i], KNIGHT_ATTACKS[srcs[i]] \cap Not(occ), Quiet)
                      ELSE <<>>)
            \o MovesTo(srcs[i], KNIGHT_ATTACKS[srcs[i]] \cap b.sides[Opp(b.side)], Capture)])

\* the four promotions pushed for one (src, dest), capture-promotions with base = 12
PromoMoves(src, dest, base) ==
    <<MoveNew(src, dest, base + 3), MoveNew(src, dest, base + 2),
      MoveNew(src, dest, base + 1), MoveNew(src, dest, base)>>

all_pawn_moves(b, QUIET, occ) ==
    LET colour == b.side
        start_rank == START_RANKS[colour + 1]
        promo_rank == START_RANKS[Opp(colour) + 1]
        pawns == b.pieces[PAWN] \cap b.sides[colour]
        opps == b.sides[Opp(colour)]
        empty == Not(occ)
        first == BBShift(empty, colour)
        pushes0 == first \cap pawns
        promo == pushes0 \cap promo_rank
        second == BBShift(first \cap empty, colour)
        double_push == Bits(second \cap start_rank \cap pawns)
        pushes == Bits(pushes0 \cap Not(promo_rank))
        promos == Bits(promo)
        attackers == Bits(pawns \cap Not(promo_rank))
        promo2 == Bits(pawns \cap promo_rank)
        capsOf(src) == PAWN_ATTACKS[colour][src] \cap opps
        forward == Forward(colour)
        dest == b.en_passant
        epsrc == [i \in 1..2 |-> jump_check(dest, <<-1, 1>>[i], -forward)]
    IN  (IF QUIET
         THEN [i \in 1..Len(double_push) |->
                  MoveNew(double_push[i], SqShift(double_push[i], 16, colour), DoublePush)]
              \o [i \in 1..Len(pushes) |->
                  MoveNew(pushes[i], SqShift(pushes[i], 8, colour), Quiet)]
         ELSE <<>>)
        \o Flatten([i \in 1..Len(promos) |->
              PromoMoves(promos[i], SqShift(promos[i], 8, colour), KnightPromotion)])
        \o Flatten([i \in 1..Len(attackers) |->
              MovesTo(attackers[i], capsOf(attackers[i]), Capture)])
        \o Flatten([i \in 1..Len(promo2) |->
              LET ds == Bits(capsOf(promo2[i]))
              IN  Flatten([j \in 1..Len(ds) |-> PromoMoves(promo2[i], ds[j], KnightCapPromo)])])
        \o (IF dest # None
            THEN Flatten([i \in 1..2 |->
                    IF epsrc[i] # 64 /\ epsrc[i] \in pawns
                    THEN <<MoveNew(epsrc[i], dest, EnPassant)>> ELSE <<>>])
            ELSE <<>>)

SliderMoves(b, QUIET, occ, kind) ==
    LET srcs == Bits(b.pieces[kind] \cap b.sides[b.side])
    IN  Flatten([i \in 1..Len(srcs) |->
            all_slider_moves(b, QUIET, srcs[i], occ,
                CASE kind = BISHOP -> bishop_attacks(occ, srcs[i])
                  [] kind = ROOK -> rook_attacks(occ, srcs[i])
                  [] OTHER -> queen_attacks(occ, srcs[i]))])

generate_pseudo_moves(b, QUIET) ==
    LET occ == Occ(b)
        king == all_king_moves(b, QUIET, occ)
    IN  IF count_bits(b.checkers) > 1 THEN king
        ELSE king \o all_pawn_moves(b, QUIET, occ) \o all_knight_moves(b, QUIET, occ)
             \o SliderMoves(b, QUIET, occ, BISHOP) \o SliderMoves(b, QUIET, occ, ROOK)
             \o SliderMoves(b, QUIET, occ, QUEEN)

\* is_legal without the pinned-piece test
is_legal_NoPin(b, m) ==
    LET src == get_source(m)
        dest == get_dest(m)
        mov_piece == piece_at(b, src)
        king_pos == king_square(b, b.side)
    IN  IF get_type(m) = EnPassant
        THEN LET captured_pawn_sq == SqShift(dest, 8, Opp(b.side))
                 occ == Xor(Xor(Xor(Occ(b), {src}), {dest}), {captured_pawn_sq})
                 diagonal_pieces == (b.pieces[BISHOP] \cup b.pieces[QUEEN])
                                    \cap b.sides[Opp(b.side)]
                 orthogonal_pieces == (b.pieces[ROOK] \cup b.pieces[QUEEN])
                                      \cap b.sides[Opp(b.side)]
             IN  bishop_attacks(occ, king_pos) \cap diagonal_pieces = {}
                 /\ rook_attacks(occ, king_pos) \cap orthogonal_pieces = {}
        ELSE IF is_king(mov_piece) THEN dest \notin b.threats
        ELSE CASE count_bits(b.checkers) = 0 -> TRUE
               [] count_bits(b.checkers) = 1 ->
                    LET checker == lsb(b.checkers)
                    IN  dest = checker \/ dest \in between(king_pos, checker)
               [] OTHER -> FALSE

is_legal(b, m) ==
    LET src == get_source(m)
        dest == get_dest(m)
        mov_piece == piece_at(b, src)
        king_pos == king_square(b, b.side)
    IN  IF get_type(m) = EnPassant
        THEN LET captured_pawn_sq == SqShift(dest, 8, Opp(b.side))
                 occ == Xor(Xor(Xor(Occ(b), {src}), {dest}), {captured_pawn_sq})
                 diagonal_pieces == (b.pieces[BISHOP] \cup b.pieces[QUEEN])
                                    \cap b.sides[Opp(b.side)]
                 orthogonal_pieces == (b.pieces[ROOK] \cup b.pieces[QUEEN])
                                      \cap b.sides[Opp(b.side)]
             IN  bishop_attacks(occ, king_pos) \cap diagonal_pieces = {}
                 /\ rook_attacks(occ, king_pos) \cap orthogonal_pieces = {}
        ELSE IF is_king(mov_piece) THEN dest \notin b.threats
        ELSE IF src \in b.pinned /\ dest \notin pinned_moves(king_pos, src) THEN FALSE
        ELSE CASE count_bits(b.checkers) = 0 -> TRUE
               [] count_bits(b.checkers) = 1 ->
                    LET checker == lsb(b.checkers)
                    IN  dest = checker \/ dest \in between(king_pos, checker)
               [] OTHER -> FALSE

\* the moves perft and the search play: generated with QUIET = true, accepted by is_legal
LegalMoves(b) ==
    LET ms == generate_pseudo_moves(b, TRUE)
    IN  SelectSeq(ms, LAMBDA m : is_legal(b, m))

(***************************************************************************)
(* from_fen: the FEN fields as sequences of characters; halfmoves as the   *)
(* value parse::<u8> accepts                                               *)
(***************************************************************************)
Digit(ch) ==
    CASE ch = "1" -> 1 [] ch = "2" -> 2 [] ch = "3" -> 3 [] ch = "4" -> 4
      [] ch = "5" -> 5 [] ch = "6" -> 6 [] ch = "7" -> 7 [] ch = "8" -> 8 [] OTHER -> 0

FileOf(ch) ==
    CASE ch = "a" -> 0 [] ch = "b" -> 1 [] ch = "c" -> 2 [] ch = "d" -> 3
      [] ch = "e" -> 4 [] ch = "f" -> 5 [] ch = "g" -> 6 [] ch = "h" -> 7

\* Square::from: row * 8 + col of the algebraic name
SquareFrom(pos) == (Digit(pos[2]) - 1) * 8 + FileOf(pos[1])

RECURSIVE FenLayout(_, _, _, _)
FenLayout(b, tokens, r, c) ==
    IF tokens = <<>> THEN b
    ELSE LET token == Head(tokens)
         IN  IF token = "/" THEN FenLayout(b, Tail(tokens), r - 1, 0)
             ELSE IF Digit(token) # 0 THEN FenLayout(b, Tail(tokens), r, c + Digit(token))
             ELSE FenLayout(set_piece(b, PieceFromFen(token), from_row_col(r, c)),
                            Tail(tokens), r, c + 1)

ZHashNew(b) ==
    LET occ == Bits(Occ(b))
        h1 == Xor({}, {PieceKey(piece_at(b, occ[i]), occ[i]) : i \in 1..Len(occ)})
        h2 == IF b.en_passant # None THEN hash_enpassant(h1, b.en_passant) ELSE h1
        h3 == hash_castle(h2, b.castling_rights)
    IN  IF b.side = White THEN hash_side(h3) ELSE h3

from_fen(fen) ==
    LET b1 == FenLayout(BoardNew, fen.layout, 7, 0)
        b2 == [b1 EXCEPT !.side = IF fen.side = "w" THEN White ELSE Black,
                         !.castling_rights = CastlingFrom(fen.castling),
                         !.en_passant = IF fen.ep = <<"-">> THEN None ELSE SquareFrom(fen.ep),
                         !.halfmoves = fen.halfmoves]
        b3 == [b2 EXCEPT !.hash = ZHashNew(b2)]
    IN  pinned_and_checkers(calculate_threats(b3))

(***************************************************************************)
(* The positions the engine is started from                                *)
(***************************************************************************)
\* 4k3/8/8/8/8/8/6bR/4K2R b K - 0 1
FenRookCapture ==
    [layout |-> <<"4", "k", "3", "/", "8", "/", "8", "/", "8", "/", "8", "/", "8", "/", "6", "b", "R", "/", "4", "K", "2", "R">>,
     side |-> "b", castling |-> <<"K">>, ep |-> <<"-">>,
     halfmoves |-> 0]

\* r3k3/8/8/8/8/8/8/4K2R w Kq - 0 1
FenCastles ==
    [layout |-> <<"r", "3", "k", "3", "/", "8", "/", "8", "/", "8", "/", "8", "/", "8", "/", "8", "/", "4", "K", "2", "R">>,
     side |-> "w", castling |-> <<"K", "q">>, ep |-> <<"-">>,
     halfmoves |-> 0]

\* 4k3/8/8/8/8/8/8/RN2K3 w Q - 0 1
FenLongCastle ==
    [layout |-> <<"4", "k", "3", "/", "8", "/", "8", "/", "8", "/", "8", "/", "8", "/", "8", "/", "R", "N", "2", "K", "3">>,
     side |-> "w", castling |-> <<"Q">>, ep |-> <<"-">>,
     halfmoves |-> 0]

\* 4k3/8/8/8/1p6/8/P7/4K3 w - - 0 1
FenDoublePush ==
    [layout |-> <<"4", "k", "3", "/", "8", "/", "8", "/", "8", "/", "1", "p", "6", "/", "8", "/", "P", "7", "/", "4", "K", "3">>,
     side |-> "w", castling |-> <<"-">>, ep |-> <<"-">>,
     halfmoves |-> 0]

\* 4k3/8/8/8/1pP5/8/8/4K3 b - c3 0 1
FenEnPassant ==
    [layout |-> <<"4", "k", "3", "/", "8", "/", "8", "/", "8", "/", "1", "p", "P", "5", "/", "8", "/", "8", "/", "4", "K", "3">>,
     side |-> "b", castling |-> <<"-">>, ep |-> <<"c", "3">>,
     halfmoves |-> 0]

\* 1n2k3/P7/8/8/8/8/8/4K3 w - - 0 1
FenPromotion ==
    [layout |-> <<"1", "n", "2", "k", "3", "/", "P", "7", "/", "8", "/", "8", "/", "8", "/", "8", "/", "8", "/", "4", "K", "3">>,
     side |-> "w", castling |-> <<"-">>, ep |-> <<"-">>,
     halfmoves |-> 0]

\* 4k3/4r3/8/8/8/8/4B3/4K3 w - - 0 1
FenPinned ==
    [layout |-> <<"4", "k", "3", "/", "4", "r", "3", "/", "8", "/", "8", "/", "8", "/", "8", "/", "4", "B", "3", "/", "4", "K", "3">>,
     side |-> "w", castling |-> <<"-">>, ep |-> <<"-">>,
     halfmoves |-> 0]

\* 4k3/8/8/8/8/8/8/4K2N w - - 254 1
FenHalfmoves ==
    [layout |-> <<"4", "k", "3", "/", "8", "/", "8", "/", "8", "/", "8", "/", "8", "/", "8", "/", "4", "K", "2", "N">>,
     side |-> "w", castling |-> <<"-">>, ep |-> <<"-">>,
     halfmoves |-> 254]

FENS == {FenRookCapture, FenCastles, FenLongCastle, FenDoublePush, FenEnPassant, FenPromotion, FenPinned, FenHalfmoves}

(***************************************************************************)
(* The rules of chess the engine is compared with: the rights a game still *)
(* has (CASTLE_MASK of castle.rs: a right is lost when its king or rook    *)
(* square is the source or the destination of a move) and the plies since  *)
(* the last pawn move or capture                                           *)
(***************************************************************************)
CASTLE_MASK ==
    [sq \in Squares |->
        CASE sq = 0 -> WQ [] sq = 4 -> WK + WQ [] sq = 7 -> WK
          [] sq = 56 -> BQ [] sq = 60 -> BK + BQ [] sq = 63 -> BK [] OTHER -> 0]

RefRights(rights, m) ==
    ClearBits(ClearBits(rights, CASTLE_MASK[get_source(m)]), CASTLE_MASK[get_dest(m)])

RefHalfmoves(n, b, m) ==
    IF is_pawn(piece_at(b, get_source(m))) \/ is_capture(get_type(m)) THEN 0 ELSE n + 1

\* Board::capture_piece
capture_piece(b, m) ==
    IF get_type(m) = EnPassant THEN (IF b.side = Black THEN WP ELSE BP)
    ELSE piece_at(b, get_dest(m))

(***************************************************************************)
(* The aspiration loop's state while no search runs                        *)
(***************************************************************************)
AspIdle == [pc |-> "idle"]

(***************************************************************************)
(* aspiration_window (engine/search.rs): one step per negamax call of the  *)
(* loop. The scores negamax returns are inputs with |score| < INF          *)
(***************************************************************************)
INF == 131072
AspDelta == 50
AspDeltaLimit == 200
AspFromDepth == 5
MaxGoDepth == 7

\* i32 division truncates toward zero
TruncDiv(a, b) == IF a >= 0 THEN a \div b ELSE -((-a) \div b)

\* find_best_move calls aspiration_window(depth - 1, best_eval) once depth >= 5
AspDepths == {d - 1 : d \in AspFromDepth..MaxGoDepth}
AspEstimates == {-INF, -300, 0, 300, INF}
AspScores(a) == {-(INF - 1), INF - 1}
                \cup {x \in {a.estimate + o : o \in {-300, -60, 0, 60, 300}} : -INF < x /\ x < INF}

AspEnter(max_depth, estimate) ==
    [pc |-> "search", estimate |-> estimate, max_depth |-> max_depth, delta |-> AspDelta,
     alpha |-> estimate - AspDelta, beta |-> estimate + AspDelta, depth |-> max_depth,
     researches |-> 0, result |-> 0]

\* the loop tail with the limit of tuning.rs (aspiration_delta_limit) in place of 200
AspWiden_Limit500(a) ==
    LET delta == a.delta + a.delta \div 2
    IN  IF delta > 500 THEN [a EXCEPT !.delta = delta, !.alpha = -INF, !.beta = INF]
        ELSE [a EXCEPT !.delta = delta]

\* the loop tail: delta += delta / 2; if delta > 200 { alpha = -INF; beta = INF }
AspWiden(a) ==
    LET delta == a.delta + a.delta \div 2
    IN  IF delta > AspDeltaLimit THEN [a EXCEPT !.delta = delta, !.alpha = -INF, !.beta = INF]
        ELSE [a EXCEPT !.delta = delta]

\* score <= alpha
AspFailLow ==
    /\ asp.pc = "search"
    /\ \E score \in AspScores(asp) :
         /\ score <= asp.alpha
         /\ asp' = AspWiden([asp EXCEPT !.beta = TruncDiv(asp.alpha + asp.beta, 2),
                                        !.alpha = Max({-INF, asp.alpha - asp.delta}),
                                        !.depth = asp.max_depth,
                                        !.researches = @ + 1])
    /\ UNCHANGED <<board, played, last, ref_halfmoves, ref_rights, data, obs, picker, table, iter>>

\* score >= beta; depth is a usize, so depth -= 1 at 0 panics or wraps with the build
AspFailHigh ==
    /\ asp.pc = "search"
    /\ \E score \in AspScores(asp) :
         /\ score > asp.alpha /\ score >= asp.beta
         /\ asp' = IF asp.depth = 0 THEN [asp EXCEPT !.pc = "underflow"]
                   ELSE AspWiden([asp EXCEPT !.beta = Min({INF, asp.beta + asp.delta}),
                                             !.depth = @ - 1,
                                             !.researches = @ + 1])
    /\ UNCHANGED <<board, played, last, ref_halfmoves, ref_rights, data, obs, picker, table, iter>>

\* alpha < score < beta: return score
AspReturn ==
    /\ asp.pc = "search"
    /\ \E score \in AspScores(asp) :
         /\ score > asp.alpha /\ score < asp.beta
         /\ asp' = [asp EXCEPT !.pc = "done", !.result = score]
    /\ UNCHANGED <<board, played, last, ref_halfmoves, ref_rights, data, obs, picker, table, iter>>

(***************************************************************************)
(* SearchData and its tables (tables.rs). A table is kept as the map of    *)
(* its non-zero entries; the transposition table as the set of its written *)
(* slots, one slot per key (32 MB of slots, a handful of keys)             *)
(***************************************************************************)
MATE == 32768
MAX_PLY == 128
MAX_HISTORY == 8192
MAX_CAP_HISTORY == 16384
HISTORY_MAX_BONUS == 1500
HISTORY_FACTOR == 355
HISTORY_OFFSET == 345

PIECE_VALUES == <<98, 435, 422, 593, 1011, 0>>
PieceValue(kind) == PIECE_VALUES[kind + 1]

TTNew == [entries |-> {}, age |-> 0]

\* TranspositionTable::probe: the slot whose key is hash, as a set of at most one entry
TTProbe(tt, hash) == {e \in tt.entries : e.key = hash}

TTClear(tt) == [entries |-> {}, age |-> 0]

inc_age(tt) == [tt EXCEPT !.age = (@ + 1) % 128]

\* TranspositionTable::insert
TTInsert(tt, hash, bound, best, value, depth, pv) ==
    LET slot == TTProbe(tt, hash)
        same == slot # {}
        old == CHOOSE e \in slot : TRUE
        write == \/ ~same
                 \/ tt.age # old.age
                 \/ bound = "Exact"
                 \/ depth + 4 + 2 * (IF pv THEN 1 ELSE 0) > old.depth
        kept == IF best = MoveNULL /\ same THEN old.best_move ELSE best
    IN  IF write
        THEN [tt EXCEPT !.entries = (@ \ slot) \cup
                 {[key |-> hash, value |-> value, best_move |-> kept, age |-> tt.age,
                   depth |-> Min({depth, 63}), bound |-> bound]}]
        ELSE tt

history_bonus(depth) == Min({HISTORY_MAX_BONUS, HISTORY_FACTOR * depth - HISTORY_OFFSET})

\* the cast "as i16": the low 16 bits, read as a signed number
AsI16(x) == ((x + 32768) % 65536) - 32768

\* the i32 value taper_bonus computes before the cast
taper_wide(MAX, bonus, old) ==
    old + bonus - TruncDiv(old * (IF bonus < 0 THEN -bonus ELSE bonus), MAX)

\* taper_bonus without the gravity term
taper_bonus_NoGravity(MAX, bonus, old) == AsI16(old + bonus)

taper_bonus(MAX, bonus, old) == AsI16(taper_wide(MAX, bonus, old))

Clamp(x, lo, hi) == IF x < lo THEN lo ELSE IF x > hi THEN hi ELSE x

TableGet(t, k) == IF k \in DOMAIN t THEN t[k] ELSE 0
TableSet(t, k, v) ==
    IF v = 0 THEN [x \in DOMAIN t \ {k} |-> t[x]]
    ELSE [x \in DOMAIN t \cup {k} |-> IF x = k THEN v ELSE t[x]]

RECURSIVE TableTaper(_, _, _, _)
\* one taper_bonus per key of keys, in order
TableTaper(t, MAX, keys, bonus) ==
    IF keys = <<>> THEN t
    ELSE TableTaper(TableSet(t, Head(keys), taper_bonus(MAX, bonus, TableGet(t, Head(keys)))),
                    MAX, Tail(keys), bonus)

HistoryKey(side, m) == <<side, get_source(m), get_dest(m)>>

\* HistoryTable::update
HistoryUpdate(score, side, m, bonus, quiets) ==
    LET c_bonus == Clamp(bonus, -MAX_HISTORY, MAX_HISTORY)
        first == TableTaper(score, MAX_HISTORY, <<HistoryKey(side, m)>>, c_bonus)
    IN  TableTaper(first, MAX_HISTORY,
                   [i \in 1..Len(quiets) |-> HistoryKey(side, quiets[i])], -c_bonus)

CapHistoryKey(b, m) ==
    <<piece_at(b, get_source(m)), get_dest(m), PieceIndex(capture_piece(b, m))>>

\* CaptureHistoryTable::update
CapHistoryUpdate(score, b, m, bonus, captures) ==
    LET c_bonus == Clamp(bonus, -MAX_CAP_HISTORY, MAX_CAP_HISTORY)
        first == IF is_capture(get_type(m))
                 THEN TableTaper(score, MAX_CAP_HISTORY, <<CapHistoryKey(b, m)>>, c_bonus)
                 ELSE score
    IN  TableTaper(first, MAX_CAP_HISTORY,
                   [i \in 1..Len(captures) |-> CapHistoryKey(b, captures[i])], -c_bonus)

\* SearchData::new
SearchDataNew ==
    [depth |-> 0, stop |-> FALSE, ply |-> 0, nodes |-> 0, best_move |-> MoveNULL,
     stack |-> <<>>, killer |-> <<>>, tt |-> TTNew, history |-> <<>>, cap_history |-> <<>>,
     cache |-> <<>>]

\* SearchData::start_search
start_search(d) ==
    [d EXCEPT !.depth = 1, !.stop = FALSE, !.best_move = MoveNULL, !.nodes = 0, !.ply = 0]

\* the stack, the node counter and the ply are all that SearchData::clear resets
SearchDataClear(d) == [d EXCEPT !.stack = <<>>, !.nodes = 0, !.ply = 0]

(***************************************************************************)
(* Board::is_draw and Board::see                                           *)
(***************************************************************************)
WHITE_SQUARES == {sq \in Squares : (row(sq) + col(sq)) % 2 = 1}
BLACK_SQUARES == {sq \in Squares : (row(sq) + col(sq)) % 2 = 0}

is_draw(b) ==
    IF b.halfmoves >= 100 THEN TRUE
    ELSE IF b.pieces[PAWN] \cup b.pieces[QUEEN] \cup b.pieces[ROOK] = {}
         THEN IF count_bits(Occ(b)) <= 3 THEN TRUE
              ELSE IF b.pieces[KNIGHT] # {} THEN FALSE
              ELSE b.pieces[BISHOP] \subseteq WHITE_SQUARES
                   \/ b.pieces[BISHOP] \subseteq BLACK_SQUARES
         ELSE FALSE

RECURSIVE SeeLoop(_, _, _, _, _, _)
\* the exchange loop of see: returns the side left to move when the loop ends, or the
\* verdict itself when a king would capture into remaining attackers
SeeLoop(b, dest, occ, attackers, stm, score) ==
    LET own_attackers == attackers \cap b.sides[stm]
    IN  IF own_attackers = {} THEN b.side # stm
        ELSE LET att == Min({k \in PAWN..KING : own_attackers \cap b.pieces[k] # {}})
                 att_sq == lsb(own_attackers \cap b.pieces[att])
                 occ1 == pop_bit(occ, att_sq)
                 diagonal == b.pieces[BISHOP] \cup b.pieces[QUEEN]
                 normal == b.pieces[ROOK] \cup b.pieces[QUEEN]
                 a1 == IF att \in {PAWN, BISHOP, QUEEN}
                       THEN attackers \cup (bishop_attacks(occ1, dest) \cap diagonal)
                       ELSE attackers
                 a2 == IF att \in {ROOK, QUEEN}
                       THEN a1 \cup (rook_attacks(occ1, dest) \cap normal)
                       ELSE a1
                 a3 == a2 \cap occ1
                 stm1 == Opp(stm)
                 score1 == -score - 1 - PieceValue(att)
             IN  IF score1 >= 0
                 THEN IF att = KING /\ a3 \cap b.sides[stm1] # {}
                      THEN b.side = stm1
                      ELSE b.side # stm1
                 ELSE SeeLoop(b, dest, occ1, a3, stm1, score1)

see(b, m, threshold) ==
    LET src == get_source(m)
        dest == get_dest(m)
        mt == get_type(m)
        cap == piece_at(b, dest)
        promo == is_promotion(mt) /\ mt # EnPassant
        next_piece == IF promo THEN PieceIndex(get_promotion(mt, b.side))
                      ELSE PieceIndex(piece_at(b, src))
        score0 == IF mt = EnPassant THEN PieceValue(PAWN) - threshold
                  ELSE (IF cap = Empty THEN 0 ELSE PieceValue(PieceIndex(cap)))
                       + (IF promo THEN PieceValue(next_piece) - PieceValue(PAWN) ELSE 0)
                       - threshold
        score1 == score0 - PieceValue(next_piece)
        occ0 == Xor(Xor(Occ(b), {src}), {dest})
        occ == IF mt = EnPassant
               THEN Xor(occ0, {SqShift(b.en_passant, 8, Opp(b.side))})
               ELSE occ0
        attackers == ((KNIGHT_ATTACKS[dest] \cap b.pieces[KNIGHT])
                      \cup (KING_ATTACKS[dest] \cap b.pieces[KING])
                      \cup (PAWN_ATTACKS[White][dest] \cap b.pieces[PAWN])
                      \cup (PAWN_ATTACKS[Black][dest] \cap b.pieces[PAWN])
                      \cup (rook_attacks(occ, dest) \cap (b.pieces[ROOK] \cup b.pieces[QUEEN]))
                      \cup (bishop_attacks(occ, dest)
                            \cap (b.pieces[BISHOP] \cup b.pieces[QUEEN])))
                     \cap occ
    IN  IF score0 < 0 THEN FALSE
        ELSE IF score1 >= 0 THEN TRUE
        ELSE SeeLoop(b, dest, occ, attackers, Opp(b.side), score1)

(***************************************************************************)
(* The search over SearchData: move ordering, quiescence, negamax and the  *)
(* iterative deepening of find_best_move. The static evaluation stands for *)
(* the network output as the material balance of the side to move; forward *)
(* pruning and depth reductions are left out, so every node the search     *)
(* visits here is ordered, cut off and recorded by the tables alone        *)
(***************************************************************************)
Material(b, side) ==
    LET count(k) == count_bits(b.pieces[k] \cap b.sides[side]) * PieceValue(k)
    IN  count(PAWN) + count(KNIGHT) + count(BISHOP) + count(ROOK) + count(QUEEN)

StaticEval(b) == Material(b, b.side) - Material(b, Opp(b.side))

MvvLva(b, m) ==
    8 * PieceIndex(capture_piece(b, m)) - PieceIndex(piece_at(b, get_source(m)))

move_score(m, b, tt_move, ply, d) ==
    IF tt_move # MoveNULL /\ m = tt_move THEN 10000000
    ELSE IF is_capture(get_type(m))
    THEN (IF see(b, m, 0) THEN 90000 ELSE 0) + MvvLva(b, m)
         + TableGet(d.cap_history, CapHistoryKey(b, m))
    ELSE IF get_type(m) = QueenPromotion THEN 80000
    ELSE IF TableGet(d.killer, ply) = m THEN 70001
    ELSE TableGet(d.history, HistoryKey(b.side, m))

\* MoveList::pick: the last of the highest-scoring moves is swapped with the last
\* move of the list and popped
PickIndex(scores, len) ==
    Max({i \in 1..len : \A j \in 1..len : scores[j] <= scores[i]})

Swap(q, i, j) == [q EXCEPT ![i] = q[j], ![j] = q[i]]

\* the bound logic of a probe: the stored value, as a set of at most one score
TTCutoff(slot, depth, alpha, beta) ==
    {e.value : e \in {x \in slot :
        /\ x.depth >= depth
        /\ ~(beta > alpha + 1)
        /\ \/ x.bound = "Exact"
           \/ x.bound = "Lower" /\ x.value >= beta
           \/ x.bound = "Upper" /\ x.value <= alpha}}

BoundOf(best_score, alpha_orig, beta) ==
    IF best_score <= alpha_orig THEN "Upper"
    ELSE IF best_score >= beta THEN "Lower" ELSE "Exact"

RECURSIVE quiescence(_, _, _, _, _)
RECURSIVE QuiescenceLoop(_, _, _, _, _, _, _)
RECURSIVE negamax(_, _, _, _, _, _)
RECURSIVE NegamaxLoop(_, _, _, _, _, _, _, _)

\* st = [alpha, best_score, best_move, d, cut]; the loop body after the child of m
\* returned score and the tables r_d
QuiescenceScored(st, beta, m, r_d, score) ==
    [alpha |-> Max({st.alpha, score}),
     best_score |-> IF score > st.best_score THEN score ELSE st.best_score,
     best_move |-> IF score > st.best_score THEN m ELSE st.best_move,
     d |-> r_d,
     cut |-> Max({st.alpha, score}) >= beta]

QuiescenceChild(st, beta, m, r) == QuiescenceScored(st, beta, m, r.d, -r.score)

\* one picked move: skipped when is_legal rejects it
QuiescenceMove(b, beta, ply, st, m) ==
    IF ~is_legal(b, m) THEN st
    ELSE QuiescenceChild(st, beta, m,
            quiescence(make_move(b, m), -beta, -st.alpha, ply + 1,
                       [st.d EXCEPT !.nodes = @ + 1]))

QuiescencePicked(b, beta, ply, moves, scores, len, st, i) ==
    QuiescenceLoop(b, beta, ply, Swap(moves, i, len), Swap(scores, i, len), len - 1,
                   QuiescenceMove(b, beta, ply, st, moves[i]))

QuiescenceLoop(b, beta, ply, moves, scores, len, st) ==
    IF len = 0 \/ st.cut THEN st
    ELSE QuiescencePicked(b, beta, ply, moves, scores, len, st, PickIndex(scores, len))

\* the entry written when the move loop of quiescence ends
QuiescenceStore(b, alpha, beta, st) ==
    [score |-> st.best_score,
     d |-> [st.d EXCEPT !.tt = TTInsert(@, b.hash, BoundOf(st.best_score, alpha, beta),
                                       st.best_move, st.best_score, 0, beta > alpha + 1)]]

\* stand pat, then the captures and queen promotions
QuiescenceEval(b, alpha, beta, ply, d, eval, moves) ==
    IF eval >= beta
    THEN [score |-> eval,
          d |-> [d EXCEPT !.tt = TTInsert(@, b.hash, "Lower", MoveNULL, eval, 0,
                                          beta > alpha + 1)]]
    ELSE QuiescenceStore(b, alpha, beta,
            QuiescenceLoop(b, beta, ply, moves,
                           [i \in 1..Len(moves) |-> MvvLva(b, moves[i])], Len(moves),
                           [alpha |-> Max({alpha, eval}), best_score |-> eval,
                            best_move |-> MoveNULL, d |-> d, cut |-> FALSE]))

quiescence(b, alpha, beta, ply, d) ==
    LET hit == TTCutoff(TTProbe(d.tt, b.hash), 0, alpha, beta)
    IN  IF hit # {} THEN [score |-> CHOOSE v \in hit : TRUE, d |-> d]
        ELSE QuiescenceEval(b, alpha, beta, ply, d, StaticEval(b),
                            generate_pseudo_moves(b, FALSE))

\* st = [pv, alpha, best_score, best_move, move_idx, quiets, captures, d, cut]; the
\* loop body after the child of m returned score and the tables r_d: on a cutoff the
\* killer, the history and the capture history are updated
NegamaxScored(b, depth, ply, st, m, r_d, score, cut) ==
    LET quiet == ~is_capture(get_type(m))
    IN  [pv |-> st.pv,
         alpha |-> Max({st.alpha, score}),
         best_score |-> IF score > st.best_score THEN score ELSE st.best_score,
         best_move |-> IF score > st.best_score THEN m ELSE st.best_move,
         move_idx |-> st.move_idx + 1,
         quiets |-> IF ~cut /\ quiet THEN Append(st.quiets, m) ELSE st.quiets,
         captures |-> IF ~cut /\ ~quiet THEN Append(st.captures, m) ELSE st.captures,
         d |-> IF ~cut THEN r_d
               ELSE [r_d EXCEPT
                       !.killer = IF quiet THEN TableSet(@, ply, m) ELSE @,
                       !.history = IF quiet
                                   THEN HistoryUpdate(@, b.side, m, history_bonus(depth),
                                                      st.quiets)
                                   ELSE @,
                       !.cap_history = CapHistoryUpdate(@, b, m, history_bonus(depth),
                                                        st.captures)],
         cut |-> cut]

NegamaxChild(b, depth, beta, ply, st, m, r) ==
    NegamaxScored(b, depth, ply, st, m, r.d, -r.score, Max({st.alpha, -r.score}) >= beta)

\* a later move that beat alpha in its zero-window search at a PV node is searched
\* again with the full window
PvsResearch(nb, depth, beta, ply, st, r1) ==
    IF -r1.score > st.alpha /\ st.pv
    THEN negamax(nb, depth - 1, -beta, -st.alpha, ply + 1, r1.d)
    ELSE r1

\* the first move with the full window, the others with a zero window
PvsSearch(nb, depth, beta, ply, st, d1) ==
    IF st.move_idx = 0
    THEN negamax(nb, depth - 1, -beta, -st.alpha, ply + 1, d1)
    ELSE PvsResearch(nb, depth, beta, ply, st,
                     negamax(nb, depth - 1, -st.alpha - 1, -st.alpha, ply + 1, d1))

\* one picked move: skipped when is_legal rejects it
NegamaxMove(b, depth, beta, ply, st, m) ==
    IF ~is_legal(b, m) THEN st
    ELSE NegamaxChild(b, depth, beta, ply, st, m,
            PvsSearch(make_move(b, m), depth, beta, ply, st,
                      [st.d EXCEPT !.nodes = @ + 1]))

NegamaxPicked(b, depth, beta, ply, moves, scores, len, st, i) ==
    NegamaxLoop(b, depth, beta, ply, Swap(moves, i, len), Swap(scores, i, len), len - 1,
                NegamaxMove(b, depth, beta, ply, st, moves[i]))

NegamaxLoop(b, depth, beta, ply, moves, scores, len, st) ==
    IF len = 0 \/ st.cut THEN st
    ELSE NegamaxPicked(b, depth, beta, ply, moves, scores, len, st, PickIndex(scores, len))

\* after the move loop: mate or stalemate when no move was legal, else the entry
\* written and, at the root, the best move published
NegamaxStore(b, depth, alpha, beta, ply, st) ==
    IF st.move_idx = 0
    THEN [score |-> IF in_check(b) THEN ply - MATE ELSE 0, d |-> st.d]
    ELSE [score |-> st.best_score,
          d |-> [st.d EXCEPT
                   !.tt = TTInsert(@, b.hash, BoundOf(st.best_score, alpha, beta),
                                   st.best_move, st.best_score, depth, beta > alpha + 1),
                   !.best_move = IF ply = 0 THEN st.best_move ELSE @]]

NegamaxSearch(b, depth, alpha, beta, ply, d, tt_move, moves) ==
    NegamaxStore(b, depth, alpha, beta, ply,
        NegamaxLoop(b, depth, beta, ply, moves,
                    [i \in 1..Len(moves) |-> move_score(moves[i], b, tt_move, ply, d)],
                    Len(moves),
                    [pv |-> beta > alpha + 1, alpha |-> alpha, best_score |-> -INF,
                     best_move |-> MoveNULL, move_idx |-> 0, quiets |-> <<>>,
                     captures |-> <<>>, d |-> d, cut |-> FALSE]))

\* the node once the check extension is applied to depth
NegamaxAt(b, depth, alpha, beta, ply, d) ==
    IF depth = 0 THEN quiescence(b, alpha, beta, ply, d)
    ELSE LET slot == TTProbe(d.tt, b.hash)
             hit == TTCutoff(slot, depth, alpha, beta)
         IN  IF hit # {} THEN [score |-> CHOOSE v \in hit : TRUE, d |-> d]
             ELSE NegamaxSearch(b, depth, alpha, beta, ply, d,
                                IF slot = {} THEN MoveNULL
                                ELSE (CHOOSE e \in slot : TRUE).best_move,
                                generate_pseudo_moves(b, TRUE))

\* the repetition test of the draw check reads a stack of fewer than 6 keys in every
\* search of the model (is_repetition returns false below 6)
negamax(b, depth_in, alpha, beta, ply, d) ==
    IF ply > 0 /\ is_draw(b) THEN [score |-> 0, d |-> d]
    ELSE NegamaxAt(b, IF in_check(b) THEN depth_in + 1 ELSE depth_in, alpha, beta, ply, d)

RECURSIVE IterativeDeepening(_, _, _, _)
\* the loop stops once a mate score is found
IterationDone(b, depth, max_depth, r) ==
    IF r.score > MATE - MAX_PLY \/ r.score < MAX_PLY - MATE THEN r.d
    ELSE IterativeDeepening(b, depth + 1, max_depth, r.d)

\* depth = 1, 2, ..., max_depth with the full window (aspiration starts at depth 5)
IterativeDeepening(b, depth, max_depth, d) ==
    IF depth > max_depth THEN d
    ELSE IterationDone(b, depth, max_depth,
                       negamax(b, depth, -INF, INF, 0, [d EXCEPT !.depth = depth]))

find_best_move(b, depth, d) == IterativeDeepening(b, 1, depth, start_search(d))

\* no find_best_move of engine/search.rs under way
IterIdle == [pc |-> "idle"]

(***************************************************************************)
(* MoveList::pick over the scores of a MovePicker (moves.rs)               *)
(***************************************************************************)
\* a MovePicker before any move is generated
PickerNew == [moves |-> <<>>, scores |-> <<>>, len |-> 0]

PickLeft_KeepScores(p) ==
    IF p.len = 0 THEN p
    ELSE [moves |-> Swap(p.moves, PickIndex(p.scores, p.len), p.len),
          scores |-> p.scores,
          len |-> p.len - 1]

\* what pick leaves of the picker: len -= 1; moves.swap(best_idx, len); scores.swap(..)
PickLeft(p) ==
    IF p.len = 0 THEN p
    ELSE [moves |-> Swap(p.moves, PickIndex(p.scores, p.len), p.len),
          scores |-> Swap(p.scores, PickIndex(p.scores, p.len), p.len),
          len |-> p.len - 1]

\* what pick returns: None as <<>>, Some((moves[len], best_score)) as the pair
PickResult(p) ==
    IF p.len = 0 THEN <<>>
    ELSE <<PickLeft(p).moves[p.len], p.scores[PickIndex(p.scores, p.len)]>>

(***************************************************************************)
(* The transposition table slot by slot (tables.rs): TTEntry with its      *)
(* packed flags, the multiply-shift index, probe, inc_age and insert. Keys *)
(* are kept to HashBits bits and the table to TTLen slots; the index is    *)
(* (hash * len) >> width as in the source                                  *)
(***************************************************************************)
HashBits == 4
TTLen == 4

BoundCode(bound) == CASE bound = "Exact" -> 0 [] bound = "Lower" -> 1 [] bound = "Upper" -> 2

\* TTEntry::make_flags: ((depth.min(63)) << 2) | (bound as u8 & 0b11)
make_flags(depth, bound) == ((Min({depth, 63}) * 4) % 256) + (BoundCode(bound) % 4)

\* TTEntry::depth
EntryDepth(e) == e.flags \div 4

\* TTEntry::bound
EntryBound(e) ==
    CASE e.flags % 4 = 1 -> "Lower" [] e.flags % 4 = 2 -> "Upper" [] OTHER -> "Exact"

\* TTEntry::default
TTEntryDefault == [key |-> 0, value |-> 0, best_move |-> MoveNULL, age |-> 0, flags |-> 0]

\* TranspositionTable::with_size_mb
TableNew == [tt |-> [i \in 0..(TTLen - 1) |-> TTEntryDefault], age |-> 0]

idx(t, hash) == (hash * TTLen) \div (2 ^ HashBits)

\* the entry as a set of at most one: Some(e) or None
probe(t, hash) == {e \in {t.tt[idx(t, hash)]} : e.key = hash}

TableIncAge(t) == [t EXCEPT !.age = (@ + 1) % 128]

\* TranspositionTable::clear
TableClear(t) == [tt |-> [i \in DOMAIN t.tt |-> TTEntryDefault], age |-> 0]

insert_AlwaysReplace(t, hash, bound, best, value, depth, pv) ==
    [t EXCEPT !.tt[idx(t, hash)] =
        [key |-> hash, value |-> value,
         best_move |-> IF best = MoveNULL /\ @.key = hash THEN @.best_move ELSE best,
         age |-> t.age, flags |-> make_flags(depth, bound)]]

insert(t, hash, bound, best, value, depth, pv) ==
    IF \/ t.age # t.tt[idx(t, hash)].age
       \/ t.tt[idx(t, hash)].key # hash
       \/ bound = "Exact"
       \/ depth + 4 + 2 * (IF pv THEN 1 ELSE 0) > EntryDepth(t.tt[idx(t, hash)])
    THEN [t EXCEPT !.tt[idx(t, hash)] =
            [key |-> hash, value |-> value,
             best_move |-> IF best = MoveNULL /\ @.key = hash THEN @.best_move ELSE best,
             age |-> t.age, flags |-> make_flags(depth, bound)]]
    ELSE t

(***************************************************************************)
(* The UCI commands that reach the search (uci.rs)                         *)
(***************************************************************************)
\* rnbqkbnr/pppppppp/8/8/8/8/PPPPPPPP/RNBQKBNR w KQkq - 0 1
FenStart ==
    [layout |-> <<"r", "n", "b", "q", "k", "b", "n", "r", "/", "p", "p", "p", "p", "p", "p", "p", "p", "/", "8", "/", "8", "/", "8", "/", "8", "/", "P", "P", "P", "P", "P", "P", "P", "P", "/", "R", "N", "B", "Q", "K", "B", "N", "R">>,
     side |-> "w", castling |-> <<"K", "Q", "k", "q">>, ep |-> <<"-">>,
     halfmoves |-> 0]

\* Board::default
BoardDefault == from_fen(FenStart)

\* 4k3/8/8/3p4/8/2N5/8/4K3 w - - 0 1
FenSearchA ==
    [layout |-> <<"4", "k", "3", "/", "8", "/", "8", "/", "3", "p", "4", "/", "8", "/", "2", "N", "5", "/", "8", "/", "4", "K", "3">>,
     side |-> "w", castling |-> <<"-">>, ep |-> <<"-">>,
     halfmoves |-> 0]

\* 4k3/8/8/8/1p6/8/P7/4K3 w - - 0 1
FenSearchB ==
    [layout |-> <<"4", "k", "3", "/", "8", "/", "8", "/", "8", "/", "1", "p", "6", "/", "8", "/", "P", "7", "/", "4", "K", "3">>,
     side |-> "w", castling |-> <<"-">>, ep |-> <<"-">>,
     halfmoves |-> 0]

\* 7k/8/6QK/8/8/8/8/8 b - - 0 1: stalemate
FenStalemate ==
    [layout |-> <<"7", "k", "/", "8", "/", "6", "Q", "K", "/", "8", "/", "8", "/", "8", "/", "8", "/", "8">>,
     side |-> "b", castling |-> <<"-">>, ep |-> <<"-">>,
     halfmoves |-> 0]

\* 7k/6Q1/6K1/8/8/8/8/8 b - - 0 1: checkmate
FenMated ==
    [layout |-> <<"7", "k", "/", "6", "Q", "1", "/", "6", "K", "1", "/", "8", "/", "8", "/", "8", "/", "8", "/", "8">>,
     side |-> "b", castling |-> <<"-">>, ep |-> <<"-">>,
     halfmoves |-> 0]

SearchFENS == {FenSearchA, FenSearchB}
MaxSearchDepth == 3
MaxGo == 2

ObsNew == [fresh |-> FALSE, searches |-> 0, runs |-> {}]

\* "ucinewgame"
UciNewGame ==
    /\ board' = BoardDefault
    /\ data' = [SearchDataClear(data) EXCEPT !.tt = TTClear(@)]
    /\ obs' = [obs EXCEPT !.fresh = TRUE]
    /\ last' = [last EXCEPT !.op = "ucinewgame"]
    /\ UNCHANGED <<played, ref_halfmoves, ref_rights, asp, picker, table, iter>>

\* "position fen ..." without a move list
Position ==
    /\ \E f \in SearchFENS : board' = from_fen(f)
    /\ data' = SearchDataClear(data)
    /\ last' = [last EXCEPT !.op = "position"]
    /\ UNCHANGED <<played, ref_halfmoves, ref_rights, asp, obs, picker, table, iter>>

\* "go depth n" on a position set with "position"; obs.runs collects what the searches
\* that started on a cleared transposition table published
Go ==
    /\ last.op \in {"position", "go"}
    /\ obs.searches < MaxGo
    /\ \E depth \in 1..MaxSearchDepth :
         \E d \in {find_best_move(board, depth, [data EXCEPT !.tt = inc_age(@)])} :
             /\ data' = d
             /\ obs' = [fresh |-> FALSE,
                        searches |-> obs.searches + 1,
                        runs |-> IF obs.fresh
                                 THEN obs.runs \cup {[hash |-> board.hash, depth |-> depth,
                                                      nodes |-> d.nodes,
                                                      best_move |-> d.best_move]}
                                 ELSE obs.runs]
    /\ last' = [last EXCEPT !.op = "go"]
    /\ UNCHANGED <<board, played, ref_halfmoves, ref_rights, asp, picker, table, iter>>

(***************************************************************************)
(* Game play: from_fen, then legal make_move and make_null_move calls      *)
(***************************************************************************)
Init ==
    \E f \in FENS :
        /\ board = from_fen(f)
        /\ played = 0
        /\ last = [op |-> "from_fen", m |-> MoveNULL, src_piece |-> Empty,
                   captured |-> Empty, before |-> BoardNew]
        /\ ref_halfmoves = f.halfmoves
        /\ ref_rights = CastlingFrom(f.castling)
        /\ asp = AspIdle
        /\ data = SearchDataNew
        /\ obs = ObsNew
        /\ picker = PickerNew
        /\ table = TableNew
        /\ iter = IterIdle

MakeMove ==
    /\ played < MaxPly
    /\ LET moves == generate_pseudo_moves(board, TRUE)
       IN  \E i \in 1..Len(moves) :
             /\ is_legal(board, moves[i])
             /\ board' = make_move(board, moves[i])
             /\ last' = [op |-> "make_move", m |-> moves[i],
                         src_piece |-> piece_at(board, get_source(moves[i])),
                         captured |-> capture_piece(board, moves[i]),
                         before |-> board]
             /\ ref_halfmoves' = RefHalfmoves(ref_halfmoves, board, moves[i])
             /\ ref_rights' = RefRights(ref_rights, moves[i])
    /\ played' = played + 1
    /\ UNCHANGED <<asp, data, obs, picker, table, iter>>

\* the search plays a null move only when the side to move is not in check
MakeNullMove ==
    /\ played < MaxPly
    /\ ~in_check(board)
    /\ board' = make_null_move(board)
    /\ last' = [op |-> "make_null_move", m |-> MoveNULL, src_piece |-> Empty,
                captured |-> Empty, before |-> board]
    /\ played' = played + 1
    /\ UNCHANGED <<ref_halfmoves, ref_rights, asp, data, obs, picker, table, iter>>

Next == MakeMove \/ MakeNullMove

Spec == Init /\ [][Next]_vars

(***************************************************************************)
(* The rules of chess, stated on the piece map alone: what a piece may     *)
(* reach, what attacks a square, and which moves leave the own king safe   *)
(***************************************************************************)
RefStep(sq, df, dr, k) ==
    IF (sq % 8) + k * df \in 0..7 /\ (sq \div 8) + k * dr \in 0..7
    THEN ((sq \div 8) + k * dr) * 8 + (sq % 8) + k * df ELSE 64

RefKnightSteps == {<<1, 2>>, <<2, 1>>, <<-1, 2>>, <<-2, 1>>, <<1, -2>>, <<2, -1>>, <<-1, -2>>, <<-2, -1>>}
RefKingSteps == {<<1, 0>>, <<-1, 0>>, <<0, 1>>, <<0, -1>>, <<1, 1>>, <<1, -1>>, <<-1, 1>>, <<-1, -1>>}
RefRookSteps == {<<1, 0>>, <<-1, 0>>, <<0, 1>>, <<0, -1>>}
RefBishopSteps == {<<1, 1>>, <<1, -1>>, <<-1, 1>>, <<-1, -1>>}

RefSteps(kind) ==
    CASE kind = KNIGHT -> RefKnightSteps [] kind = KING -> RefKingSteps
      [] kind = ROOK -> RefRookSteps [] kind = BISHOP -> RefBishopSteps
      [] kind = QUEEN -> RefKingSteps [] OTHER -> {}

RefReach(kind) == IF kind \in {ROOK, BISHOP, QUEEN} THEN 7 ELSE 1

\* the squares a knight, bishop, rook, queen or king on sq reaches on the piece map pm
RefTargets(pm, sq, kind) ==
    UNION {{RefStep(sq, d[1], d[2], k) :
              k \in {n \in 1..RefReach(kind) :
                        /\ RefStep(sq, d[1], d[2], n) # 64
                        /\ \A j \in 1..(n - 1) : pm[RefStep(sq, d[1], d[2], j)] = Empty}} :
           d \in RefSteps(kind)}

RefPawnAttacks(sq, colour) ==
    {t \in Squares : \E df \in {-1, 1} : t = RefStep(sq, df, Forward(colour), 1)}

RefAttacked(pm, sq, by) ==
    \E s \in Squares :
        /\ pm[s] # Empty /\ PieceColour(pm[s]) = by
        /\ IF PieceIndex(pm[s]) = PAWN THEN sq \in RefPawnAttacks(s, by)
           ELSE sq \in RefTargets(pm, s, PieceIndex(pm[s]))

RefKing(pm, colour) == CHOOSE s \in Squares : pm[s] = MkPiece(colour, KING)

RefPromoKinds == {KnightPromotion, BishopPromotion, RookPromotion, QueenPromotion}

\* the pawn moves of the rules from sq, as <<dest, kind>>
RefPawnMoves(pm, ep, sq, colour) ==
    LET fwd == Forward(colour)
        one == RefStep(sq, 0, fwd, 1)
        two == RefStep(sq, 0, fwd, 2)
        last_rank == IF colour = White THEN 7 ELSE 0
        first_rank == IF colour = White THEN 1 ELSE 6
        kinds(t, cap) == IF t \div 8 = last_rank
                         THEN {k + (IF cap THEN 8 ELSE 0) : k \in RefPromoKinds}
                         ELSE {IF cap THEN Capture ELSE Quiet}
    IN  (IF one # 64 /\ pm[one] = Empty THEN {<<one, k>> : k \in kinds(one, FALSE)} ELSE {})
        \cup (IF sq \div 8 = first_rank /\ pm[one] = Empty /\ pm[two] = Empty
              THEN {<<two, DoublePush>>} ELSE {})
        \cup UNION {{<<t, k>> : k \in kinds(t, TRUE)} :
                      t \in {x \in RefPawnAttacks(sq, colour) :
                                pm[x] # Empty /\ PieceColour(pm[x]) = Opp(colour)}}
        \cup {<<t, EnPassant>> : t \in {x \in RefPawnAttacks(sq, colour) : x = ep}}

\* the piece map after the move (src, dest, kind)
RefApply(pm, src, dest, kind) ==
    LET piece == pm[src]
        colour == PieceColour(piece)
        placed == IF is_promotion(kind) THEN get_promotion(kind, colour) ELSE piece
        moved == [pm EXCEPT ![src] = Empty, ![dest] = placed]
    IN  CASE kind = EnPassant -> [moved EXCEPT ![RefStep(dest, 0, -Forward(colour), 1)] = Empty]
          [] kind = Castle ->
                LET rook_src == IF dest > src THEN src + 3 ELSE src - 4
                    rook_dest == IF dest > src THEN src + 1 ELSE src - 1
                IN  [moved EXCEPT ![rook_src] = Empty, ![rook_dest] = pm[rook_src]]
          [] OTHER -> moved

\* castling by the rules: the right is still held, the squares between king and rook
\* are empty, and the king is not attacked where it stands, passes or lands
RefCastles(pm, rights, colour) ==
    LET home == IF colour = White THEN 4 ELSE 60
        can(right, rook_sq, step) ==
            /\ HasBit(rights, right)
            /\ pm[home] = MkPiece(colour, KING) /\ pm[rook_sq] = MkPiece(colour, ROOK)
            /\ \A s \in Squares : (s > home /\ s < rook_sq) \/ (s < home /\ s > rook_sq)
                                    => pm[s] = Empty
            /\ \A s \in {home, home + step, home + 2 * step} : ~RefAttacked(pm, s, Opp(colour))
    IN  (IF can(IF colour = White THEN WK ELSE BK, home + 3, 1)
         THEN {MoveNew(home, home + 2, Castle)} ELSE {})
        \cup (IF can(IF colour = White THEN WQ ELSE BQ, home - 4, -1)
              THEN {MoveNew(home, home - 2, Castle)} ELSE {})

RefPseudoMoves(pm, ep, colour) ==
    UNION {IF PieceIndex(pm[s]) = PAWN
           THEN {MoveNew(s, x[1], x[2]) : x \in RefPawnMoves(pm, ep, s, colour)}
           ELSE {MoveNew(s, t, IF pm[t] = Empty THEN Quiet ELSE Capture) :
                    t \in {x \in RefTargets(pm, s, PieceIndex(pm[s])) :
                              pm[x] = Empty \/ PieceColour(pm[x]) = Opp(colour)}} :
           s \in {x \in Squares : pm[x] # Empty /\ PieceColour(pm[x]) = colour}}

RefLegalMoves(pm, ep, rights, colour) ==
    {m \in RefPseudoMoves(pm, ep, colour) :
        LET after == RefApply(pm, get_source(m), get_dest(m), get_type(m))
        IN  ~RefAttacked(after, RefKing(after, colour), Opp(colour))}
    \cup RefCastles(pm, rights, colour)

SeqToSet(q) == {q[i] : i \in 1..Len(q)}
NoDuplicates(q) == \A i, j \in 1..Len(q) : q[i] = q[j] => i = j

(***************************************************************************)
(* Board invariants                                                        *)
(***************************************************************************)
\* C1: after from_fen and after every make_move and make_null_move, board.hash
\* equals the hash ZHash::new computes from scratch for the position
C1_HashConsistent == board.hash = ZHashNew(board)

\* a null move has been played on a position whose en-passant square was set
C1_Witness ==
    /\ last.op = "make_null_move" /\ last.before.en_passant # None
    /\ board.hash = ZHashNew(board)

\* C2: piece_map[sq] is a piece p exactly when sq is in pieces[kind of p] and in
\* sides[colour of p]; it is Empty exactly when sq is in no bitboard
C2_PieceMapConsistent ==
    \A sq \in Squares :
        /\ \A p \in 0..11 :
              board.piece_map[sq] = p
                <=> (sq \in board.pieces[PieceIndex(p)] /\ sq \in board.sides[PieceColour(p)])
        /\ board.piece_map[sq] = Empty
              <=> (\A k \in PAWN..KING : sq \notin board.pieces[k])
                  /\ sq \notin board.sides[White] /\ sq \notin board.sides[Black]

\* a pawn has captured and promoted: three pieces changed in one make_move
C2_Witness ==
    /\ last.op = "make_move" /\ is_capture(get_type(last.m)) /\ is_promotion(get_type(last.m))
    /\ board.piece_map[get_dest(last.m)] = get_promotion(get_type(last.m), Opp(board.side))

\* C3: the two colour bitboards are disjoint, the six kind bitboards are pairwise
\* disjoint, and the union of the kinds equals the union of the colours
C3_Partition ==
    /\ board.sides[White] \cap board.sides[Black] = {}
    /\ \A j, k \in PAWN..KING : j # k => board.pieces[j] \cap board.pieces[k] = {}
    /\ UNION {board.pieces[k] : k \in PAWN..KING} = board.sides[White] \cup board.sides[Black]

\* a piece other than a pawn has captured a piece of another kind
C3_Witness ==
    /\ last.op = "make_move" /\ get_type(last.m) = Capture
    /\ PieceIndex(last.captured) # PieceIndex(last.src_piece)
    /\ get_dest(last.m) \in board.sides[Opp(board.side)]

\* C4: after make_move of a generated move that is_legal accepted, the king of the
\* side that moved is not attacked by the side now to move
C4_KingSafe ==
    last.op = "make_move"
        => ~is_attacked_by(board, king_square(board, Opp(board.side)), board.side)

\* a side in check has answered the check
C4_Witness ==
    /\ last.op = "make_move" /\ last.before.checkers # {}
    /\ ~is_attacked_by(board, king_square(board, Opp(board.side)), board.side)

(***************************************************************************)
(* Move generation against the rules                                       *)
(***************************************************************************)
\* C5: in every reachable position the generated moves that is_legal accepts are
\* exactly the legal moves of chess, each of them once; castling is legal by the
\* rules only while the right is still held (ref_rights)
C5_ExactlyLegal ==
    /\ SeqToSet(LegalMoves(board))
         = RefLegalMoves(board.piece_map, board.en_passant, ref_rights, board.side)
    /\ NoDuplicates(LegalMoves(board))

\* C6: after make_move no right is left whose rook home square is the move's source
\* or destination, and a side whose king moved has no right left
C6_RightsCleared ==
    last.op = "make_move" =>
        LET src == get_source(last.m)
            dest == get_dest(last.m)
            gone(right) == ~HasBit(board.castling_rights, right)
        IN  /\ (src = 7 \/ dest = 7) => gone(WK)
            /\ (src = 0 \/ dest = 0) => gone(WQ)
            /\ (src = 63 \/ dest = 63) => gone(BK)
            /\ (src = 56 \/ dest = 56) => gone(BQ)
            /\ last.src_piece = MkPiece(White, KING) => gone(WK) /\ gone(WQ)
            /\ last.src_piece = MkPiece(Black, KING) => gone(BK) /\ gone(BQ)

\* C7: is_castle_legal(dest) holds exactly when dest is a castle destination of the
\* side to move, its right is set, every square between king and rook is empty, the
\* king is not in check, the squares it passes and lands on are not in threats, and
\* an own rook stands on the rook's home square; a Castle move is generated only then
C7_CastleLegal ==
    /\ \A dest \in Squares :
          is_castle_legal(board, dest) <=>
            \E c \in {<<White, 6, 7, WK>>, <<White, 2, 0, WQ>>, <<Black, 62, 63, BK>>,
                      <<Black, 58, 56, BQ>>} :
                LET king == king_square(board, board.side)
                    rook == c[3]
                IN  /\ board.side = c[1] /\ dest = c[2]
                    /\ HasBit(board.castling_rights, c[4])
                    /\ \A s \in Squares : (king < s /\ s < rook) \/ (rook < s /\ s < king)
                                            => board.piece_map[s] = Empty
                    /\ board.checkers = {}
                    /\ \A s \in Squares : (king < s /\ s <= dest) \/ (dest <= s /\ s < king)
                                            => s \notin board.threats
                    /\ board.piece_map[rook] = MkPiece(board.side, ROOK)
    /\ LET moves == generate_pseudo_moves(board, TRUE)
       IN  \A i \in 1..Len(moves) :
              get_type(moves[i]) = Castle => is_castle_legal(board, get_dest(moves[i]))

\* a castle has been generated, accepted and played
C7_Witness ==
    /\ last.op = "make_move" /\ get_type(last.m) = Castle
    /\ is_castle_legal(last.before, get_dest(last.m))

\* C8: halfmoves is the number of plies since the last pawn move or capture, also
\* past 255 of them, and a null move leaves it unchanged
C8_Halfmoves ==
    /\ board.halfmoves = ref_halfmoves
    /\ last.op = "make_null_move" => board.halfmoves = last.before.halfmoves

(***************************************************************************)
(* The aspiration loop on its own: every call depth and estimate of the    *)
(* root loop, every score sequence                                         *)
(***************************************************************************)
InitAsp ==
    /\ board = BoardNew
    /\ played = 0
    /\ last = [op |-> "from_fen", m |-> MoveNULL, src_piece |-> Empty,
               captured |-> Empty, before |-> BoardNew]
    /\ ref_halfmoves = 0
    /\ ref_rights = NONE
    /\ data = SearchDataNew
    /\ obs = ObsNew
    /\ picker = PickerNew
    /\ table = TableNew
    /\ iter = IterIdle
    /\ \E max_depth \in AspDepths : \E estimate \in AspEstimates :
         asp = AspEnter(max_depth, estimate)

NextAsp == AspFailLow \/ AspFailHigh \/ AspReturn

\* every negamax call of the loop returns
SpecAsp == InitAsp /\ [][NextAsp]_vars /\ WF_vars(NextAsp)

\* the widenings delta takes to exceed the limit: 50 -> 75 -> 112 -> 168 -> 252
RECURSIVE AspGrowth(_)
AspGrowth(delta) ==
    IF delta > AspDeltaLimit THEN 0 ELSE 1 + AspGrowth(delta + delta \div 2)

\* the re-searches the initial delta and the limit allow
AspMaxResearches == AspGrowth(AspDelta)

AspSafe ==
    /\ asp.pc # "underflow"
    /\ asp.depth >= 0 /\ asp.depth <= asp.max_depth
    /\ asp.researches <= AspMaxResearches
    /\ asp.researches > 0 => asp.delta > AspDelta
    /\ asp.delta > AspDeltaLimit => asp.alpha = -INF /\ asp.beta = INF
    /\ (asp.alpha = -INF /\ asp.beta = INF) =>
          \A score \in AspScores(asp) : score > asp.alpha /\ score < asp.beta
    /\ asp.pc = "done" => asp.result > asp.alpha /\ asp.result < asp.beta

\* C10: the aspiration loop ends for every estimate and every score sequence with
\* |score| < INF: delta grows with each failed search, past the limit the window is
\* [-INF, INF] and the next score is returned, at most AspMaxResearches re-searches
\* happen, and the depth passed to negamax stays within 0..max_depth
C10_AspirationTerminates == []AspSafe /\ <>(asp.pc = "done")

\* four fail-highs from the shallowest call: the fifth search runs at depth 0 with
\* the full window and its score is returned
C10_Witness ==
    /\ asp.pc = "done" /\ asp.researches = AspMaxResearches /\ asp.depth = 0
    /\ asp.alpha = -INF /\ asp.beta = INF

(***************************************************************************)
(* The engine at its command loop                                          *)
(***************************************************************************)
InitSearch ==
    /\ board = BoardDefault
    /\ played = 0
    /\ last = [op |-> "new", m |-> MoveNULL, src_piece |-> Empty,
               captured |-> Empty, before |-> BoardNew]
    /\ ref_halfmoves = 0
    /\ ref_rights = NONE
    /\ asp = AspIdle
    /\ data = SearchDataNew
    /\ obs = ObsNew
    /\ picker = PickerNew
    /\ table = TableNew
    /\ iter = IterIdle

NextSearch == UciNewGame \/ Position \/ Go

SpecSearch == InitSearch /\ [][NextSearch]_vars

C15_NullMoveFrame ==
    last.op = "make_null_move" =>
        /\ board.side = Opp(last.before.side)
        /\ board.en_passant = None
        /\ board.hash = Xor(Xor(last.before.hash, {SIDE_KEY}),
                            IF last.before.en_passant = None THEN {}
                            ELSE {EpKey(last.before.en_passant)})
        /\ board.pieces = last.before.pieces
        /\ board.sides = last.before.sides
        /\ board.piece_map = last.before.piece_map
        /\ board.castling_rights = last.before.castling_rights
        /\ board.halfmoves = last.before.halfmoves

\* a null move made with castling rights held and the clock running
C15_Witness ==
    /\ last.op = "make_null_move"
    /\ last.before.castling_rights # NONE /\ last.before.halfmoves > 0
    /\ board.side = Opp(last.before.side)

\* C16: after make_move en_passant is set exactly when the move was a double push,
\* to the square the pawn skipped; after make_null_move it is None
C16_EnPassantOnePly ==
    /\ last.op = "make_move" =>
          IF get_type(last.m) = DoublePush
          THEN /\ board.en_passant # None
               /\ 2 * board.en_passant = get_source(last.m) + get_dest(last.m)
               /\ col(board.en_passant) = col(get_dest(last.m))
          ELSE board.en_passant = None
    /\ last.op = "make_null_move" => board.en_passant = None

\* the move after a double push was made and the square is gone
C16_Witness ==
    /\ last.op = "make_move" /\ last.before.en_passant # None
    /\ get_type(last.m) # DoublePush /\ board.en_passant = None

\* C20: with QUIET = false every generated move is a capture (Capture, EnPassant, a
\* capture-promotion) or a QueenPromotion
C20_QuietFalse ==
    LET moves == generate_pseudo_moves(board, FALSE)
    IN  \A i \in 1..Len(moves) :
            is_capture(get_type(moves[i])) \/ get_type(moves[i]) = QueenPromotion

(***************************************************************************)
(* negamax of engine/search.rs up to its null-move pruning: the table      *)
(* probe, the draw tests and the leaf. The stack holds the keys of the     *)
(* game and of the search path, the node's own key on top                  *)
(***************************************************************************)
DRAW == 0
MAX_DEPTH == 16

\* the entries `for &hash in stack.iter().rev().take(window).skip(1).step_by(2)` visits
StackVisited(stack, window) ==
    {i \in 1..Len(stack) : LET k == Len(stack) - i
                           IN  k < window /\ k >= 1 /\ k % 2 = 1}

\* reps starts at 1 + root and drops by one on every visited entry equal to the key
RepsReachZero(stack, visited, curr_hash, root) ==
    Cardinality({i \in visited : stack[i] = curr_hash}) >= 1 + (IF root THEN 1 ELSE 0)

\* is_repetition of engine/search.rs
StackRepetition(stack, curr_hash, root) ==
    IF Len(stack) < 6 THEN FALSE
    ELSE RepsReachZero(stack, StackVisited(stack, Len(stack)), curr_hash, root)

\* slot is what tt.get(key) answers: the set of at most one entry
NegamaxEntry(b, depth, alpha, beta, slot, stack) ==
    IF \E e \in slot : /\ e.depth >= depth
                       /\ \/ e.bound = "Exact"
                          \/ e.bound = "Lower" /\ e.value >= beta
                          \/ e.bound = "Upper" /\ e.value <= alpha
    THEN [kind |-> "return", value |-> (CHOOSE e \in slot : TRUE).value]
    ELSE IF Len(stack) > 6 /\ (is_draw(b) \/ StackRepetition(stack, b.hash, FALSE))
    THEN [kind |-> "return", value |-> DRAW]
    ELSE IF depth = 0 THEN [kind |-> "quiescence", value |-> StaticEval(b)]
    ELSE IF is_draw(b) THEN [kind |-> "return", value |-> DRAW]
    ELSE [kind |-> "search", value |-> 0]

\* 4k3/8/8/8/8/8/8/4K3 w - - 0 1
FenBareKings ==
    [layout |-> <<"4", "k", "3", "/", "8", "/", "8", "/", "8", "/", "8", "/", "8", "/", "8", "/", "4", "K", "3">>,
     side |-> "w", castling |-> <<"-">>, ep |-> <<"-">>,
     halfmoves |-> 0]

\* 4k3/8/8/8/8/8/8/R3K3 w - - 100 1
FenFifty ==
    [layout |-> <<"4", "k", "3", "/", "8", "/", "8", "/", "8", "/", "8", "/", "8", "/", "8", "/", "R", "3", "K", "3">>,
     side |-> "w", castling |-> <<"-">>, ep |-> <<"-">>,
     halfmoves |-> 100]

NodeFENS == {FenBareKings, FenFifty, FenSearchA, FenPinned}
NodeDepths == 0..2
NodeWindows == {<<-INF, INF>>, <<-1, 0>>}
NodeSlots ==
    {{}} \cup {{[depth |-> d, value |-> v, bound |-> bd]} :
                 d \in {0, 2}, v \in {-50, 0, 50}, bd \in {"Exact", "Lower", "Upper"}}
\* stacks of 2 and of 8 keys with the node's key on top, and the key again 1 or 2
\* plies further down or not at all; {} is the key of no position of the inputs
NodeStacks(key) ==
    {[i \in 1..n |-> IF i \in at THEN key ELSE {}] :
        n \in {2, 8}, at \in {{8}, {2}, {1, 2}, {6, 8}, {7, 8}}}

CallNegamax ==
    /\ last.op = "new"
    /\ \E f \in NodeFENS : \E b \in {from_fen(f)} :
         \E depth \in NodeDepths : \E w \in NodeWindows : \E slot \in NodeSlots :
           \E stack \in {s \in NodeStacks(b.hash) : s[Len(s)] = b.hash} :
             last' = [op |-> "negamax", b |-> b, depth |-> depth, alpha |-> w[1],
                      beta |-> w[2], slot |-> slot, stack |-> stack,
                      result |-> NegamaxEntry(b, depth, w[1], w[2], slot, stack)]
    /\ UNCHANGED <<board, played, ref_halfmoves, ref_rights, asp, data, obs, picker, table, iter>>

\* the node's key lies an even number of plies down the stack: same side to move
NodeRepeated(stack, key) ==
    \E k \in 1..(Len(stack) - 1) : k % 2 = 0 /\ stack[Len(stack) - k] = key

\* C11: negamax is entered at ply > 0 only (the root's moves are made by find_best_move);
\* at a node whose position is a draw by the 50-move rule, by insufficient material or
\* by repetition along the stack it returns the draw score 0, whatever entry the
\* transposition table holds for the key
C11_DrawScore ==
    last.op = "negamax" /\ (is_draw(last.b) \/ NodeRepeated(last.stack, last.b.hash))
        => last.result.kind # "search" /\ last.result.value = DRAW

(***************************************************************************)
(* SearchData::is_repetition (tables.rs). Here the stack holds the keys of *)
(* the positions before the current node, the parent's key on top;         *)
(* board.halfmoves + 1 is an addition of u8                                *)
(***************************************************************************)
is_repetition(stack, halfmoves, curr_hash, root) ==
    IF Len(stack) < 6 THEN FALSE
    ELSE RepsReachZero(stack, StackVisited(stack, (halfmoves + 1) % 256), curr_hash, root)

MaxStack == 7
MaxHalfmoves == 7
StackKeys == {1, 2}
RepStacks == UNION {[1..n -> StackKeys] : n \in 0..MaxStack}

CallIsRepetition ==
    /\ last.op = "new"
    /\ \E stack \in RepStacks : \E halfmoves \in 0..MaxHalfmoves : \E root \in BOOLEAN :
         last' = [op |-> "is_repetition", stack |-> stack, halfmoves |-> halfmoves,
                  key |-> 1, root |-> root,
                  result |-> is_repetition(stack, halfmoves, 1, root)]
    /\ UNCHANGED <<board, played, ref_halfmoves, ref_rights, asp, data, obs, picker, table, iter>>

\* the entry p plies before the current node, the top of the stack being 1 ply before
PliesBefore(stack, p) == stack[Len(stack) - p + 1]

\* C18: is_repetition answers true exactly when the key occurs at least once (twice
\* for the root) among the stack entries 2, 4, 6, ... plies before the current node
\* that lie within the last halfmoves + 1 entries, for every length of the stack
C18_Repetition ==
    last.op = "is_repetition" =>
        (last.result <=>
            Cardinality({p \in 1..Len(last.stack) :
                            /\ p % 2 = 0
                            /\ p <= last.halfmoves + 1
                            /\ PliesBefore(last.stack, p) = last.key})
                >= (IF last.root THEN 2 ELSE 1))

(***************************************************************************)
(* The score field of the info line (Display for SearchData)               *)
(***************************************************************************)
Abs(x) == IF x < 0 THEN -x ELSE x

\* "score mate {sign}{mate_in}" or "score cp {eval}", as the words of the field
ScoreField(eval) ==
    IF Abs(eval) >= MATE - MAX_DEPTH
    THEN <<"score", "mate", IF eval < 0 THEN "-" ELSE "", TruncDiv(MATE - Abs(eval), 2)>>
    ELSE <<"score", "cp", "", eval>>

\* the scores of a mate within MAX_DEPTH plies, and a few centipawn scores
DisplayEvals ==
    {MATE - k : k \in 0..(MAX_DEPTH + 2)} \cup {k - MATE : k \in 0..(MAX_DEPTH + 2)}
        \cup {-300, -1, 0, 1, 300}

CallDisplay ==
    /\ last.op = "new"
    /\ \E eval \in DisplayEvals :
         last' = [op |-> "display", eval |-> eval, result |-> ScoreField(eval)]
    /\ UNCHANGED <<board, played, ref_halfmoves, ref_rights, asp, data, obs, picker, table, iter>>

\* the moves N of a mate that the field reports as a mate: 2N plies within MAX_DEPTH
MateMoves == 1..(MAX_DEPTH \div 2)

\* C14: a root score MATE - (2N-1), the side to move mating in N moves, is reported as
\* `score mate N`; a root score 2N - MATE, the side to move mated in N moves, as
\* `score mate -N`
C14_MateScore ==
    last.op = "display" =>
        \A n \in MateMoves :
            /\ last.eval = MATE - (2 * n - 1) => last.result = <<"score", "mate", "", n>>
            /\ last.eval = 2 * n - MATE => last.result = <<"score", "mate", "-", n>>

(***************************************************************************)
(* Move::new with its three readers, and the generator on the input        *)
(* positions and on every position one legal move away from them           *)
(***************************************************************************)
MoveKinds ==
    {Quiet, Castle, DoublePush, KnightPromotion, BishopPromotion, RookPromotion,
     QueenPromotion, Capture, EnPassant, KnightCapPromo, BishopCapPromo, RookCapPromo,
     QueenCapPromo}

CallMoveNew ==
    /\ last.op = "new"
    /\ \E src \in Squares : \E dest \in Squares : \E kind \in MoveKinds :
         \E m \in {MoveNew(src, dest, kind)} :
           last' = [op |-> "Move::new", src |-> src, dest |-> dest, kind |-> kind, m |-> m,
                    result |-> <<get_source(m), get_dest(m), get_type(m)>>]
    /\ UNCHANGED <<board, played, ref_halfmoves, ref_rights, asp, data, obs, picker, table, iter>>

GenFENS == FENS \cup {FenStart, FenSearchA, FenStalemate, FenMated}

CallGenerate ==
    /\ last.op = "new"
    /\ \E f \in GenFENS : \E quiet \in BOOLEAN : \E b0 \in {from_fen(f)} :
         \E b \in {b0} \cup {make_move(b0, m) : m \in SeqToSet(LegalMoves(b0))} :
           last' = [op |-> "generate_pseudo_moves", b |-> b, quiet |-> quiet,
                    moves |-> generate_pseudo_moves(b, quiet)]
    /\ UNCHANGED <<board, played, ref_halfmoves, ref_rights, asp, data, obs, picker, table, iter>>

\* C29: no generated move has its source equal to its destination, so none is
\* Move::NULL; and get_source, get_dest and get_type read back what Move::new was
\* given, for each of the 13 kinds
C29_MovesDistinctFromNull ==
    /\ last.op = "generate_pseudo_moves" =>
         \A i \in 1..Len(last.moves) :
            /\ get_source(last.moves[i]) # get_dest(last.moves[i])
            /\ last.moves[i] # MoveNULL
    /\ last.op = "Move::new" => last.result = <<last.src, last.dest, last.kind>>

\* the generator listed the castle e1g1 among the moves of a position
C29_Witness ==
    /\ last.op = "generate_pseudo_moves"
    /\ last.quiet
    /\ \E i \in 1..Len(last.moves) :
         get_type(last.moves[i]) = Castle /\ get_source(last.moves[i]) = 4

(***************************************************************************)
(* The calls above, each made once on every input of its bounded sets      *)
(***************************************************************************)
InitCalls ==
    /\ board = BoardNew
    /\ played = 0
    /\ last = [op |-> "new"]
    /\ ref_halfmoves = 0
    /\ ref_rights = NONE
    /\ asp = AspIdle
    /\ data = SearchDataNew
    /\ obs = ObsNew
    /\ picker = PickerNew
    /\ table = TableNew
    /\ iter = IterIdle

NextCalls == CallNegamax \/ CallIsRepetition \/ CallDisplay \/ CallMoveNew \/ CallGenerate

SpecCalls == InitCalls /\ [][NextCalls]_vars

(***************************************************************************)
(* A transposition table under insert and inc_age                          *)
(***************************************************************************)
MaxInserts == 2
MaxAge == 1

\* keys 0 and 1 share slot 0 (0 is also the key of an empty slot), key 9 has slot 2
TTHashes == {0, 1, 9}
TTBounds == {"Exact", "Lower", "Upper"}
TTMoves == {MoveNULL, 77}
TTValues == {10, 20}
\* 1 + 4 > 6 only with the pv flag; 70 is stored as 63
TTDepths == {1, 6, 70}

InitTT ==
    /\ board = BoardNew
    /\ played = 0
    /\ last = [op |-> "new", written |-> {}]
    /\ ref_halfmoves = 0
    /\ ref_rights = NONE
    /\ asp = AspIdle
    /\ data = SearchDataNew
    /\ obs = ObsNew
    /\ picker = PickerNew
    /\ table = TableNew
    /\ iter = IterIdle

Insert ==
    /\ played < MaxInserts
    /\ \E hash \in TTHashes : \E bound \in TTBounds : \E best \in TTMoves :
         \E value \in TTValues : \E depth \in TTDepths : \E pv \in BOOLEAN :
           /\ table' = insert(table, hash, bound, best, value, depth, pv)
           /\ last' = [op |-> "insert", before |-> table, hash |-> hash, bound |-> bound,
                       best |-> best, value |-> value, depth |-> depth, pv |-> pv,
                       written |-> last.written \cup {hash}]
    /\ played' = played + 1
    /\ UNCHANGED <<board, ref_halfmoves, ref_rights, asp, data, obs, picker, iter>>

IncAge ==
    /\ table.age < MaxAge
    /\ table' = TableIncAge(table)
    /\ last' = [op |-> "inc_age", written |-> last.written]
    /\ UNCHANGED <<board, played, ref_halfmoves, ref_rights, asp, data, obs, picker, iter>>

\* clear, on a table that was written or aged
Clear ==
    /\ table # TableNew
    /\ table' = TableClear(table)
    /\ last' = [op |-> "clear", written |-> {}]
    /\ UNCHANGED <<board, played, ref_halfmoves, ref_rights, asp, data, obs, picker, iter>>

NextTT == Insert \/ IncAge \/ Clear

SpecTT == InitTT /\ [][NextTT]_vars

\* the slot of the key before the insert
SlotBefore == last.before.tt[idx(last.before, last.hash)]

\* the four reasons to overwrite, on the slot before the insert
Replaces ==
    \/ SlotBefore.age # last.before.age
    \/ SlotBefore.key # last.hash
    \/ last.bound = "Exact"
    \/ last.depth + 4 + (IF last.pv THEN 2 ELSE 0) > EntryDepth(SlotBefore)

\* C17: insert overwrites the slot of the key when its age is not the table's, its key
\* is another one, the bound is Exact or depth + 4 + 2*pv exceeds its stored depth: the
\* next probe of the key then answers the new value, bound, min(depth, 63) and the
\* current age; in every other case the whole table is as it was
C17_InsertReplaces ==
    last.op = "insert" =>
        IF Replaces
        THEN /\ probe(table, last.hash) # {}
             /\ \A e \in probe(table, last.hash) :
                  /\ e.value = last.value
                  /\ EntryBound(e) = last.bound
                  /\ EntryDepth(e) = Min({last.depth, 63})
                  /\ e.age = table.age
        ELSE table = last.before

\* an insert of a shallow bound into the slot that holds the same key at depth 63 from
\* the same age: nothing is written
C17_Witness ==
    /\ last.op = "insert"
    /\ ~Replaces
    /\ EntryDepth(SlotBefore) = 63
    /\ last.value # SlotBefore.value
    /\ table.age = 1

(***************************************************************************)
(* A MovePicker picked empty                                               *)
(***************************************************************************)
MaxMoves == 3
PickScores == {-5, 0, 7}

\* n distinct moves, every scoring of them
PickerInputs ==
    UNION {{[moves |-> [i \in 1..n |-> i], scores |-> sc, len |-> n] :
               sc \in [1..n -> PickScores]} : n \in 0..MaxMoves}

InitPick ==
    /\ board = BoardNew
    /\ played = 0
    /\ ref_halfmoves = 0
    /\ ref_rights = NONE
    /\ asp = AspIdle
    /\ data = SearchDataNew
    /\ obs = ObsNew
    /\ table = TableNew
    /\ iter = IterIdle
    /\ \E p \in PickerInputs :
         /\ picker = p
         /\ last = [op |-> "new", orig |-> p, picked |-> <<>>]

\* MovePicker::next, once more than there are moves
Pick ==
    /\ Len(last.picked) <= last.orig.len
    /\ picker' = PickLeft(picker)
    /\ last' = [op |-> "pick", orig |-> last.orig, before |-> picker,
                result |-> PickResult(picker),
                picked |-> Append(last.picked, PickResult(picker))]
    /\ UNCHANGED <<board, played, ref_halfmoves, ref_rights, asp, data, obs, table, iter>>

NextPick == Pick

SpecPick == InitPick /\ [][NextPick]_vars

\* the moves of a picker, each with its score
Pairs(p) == {<<p.moves[i], p.scores[i]>> : i \in 1..p.len}

\* C19: pick on n > 0 moves returns a move whose score no remaining move exceeds, takes
\* exactly that move off the list and leaves every other move with its own score; n
\* calls return every move once, in non-increasing order of score, and the call after
\* them returns None
C19_Pick ==
    last.op = "pick" =>
        /\ IF last.before.len = 0
           THEN last.result = <<>> /\ picker = last.before
           ELSE /\ last.result \in Pairs(last.before)
                /\ \A pr \in Pairs(last.before) : pr[2] <= last.result[2]
                /\ picker.len = last.before.len - 1
                /\ Pairs(picker) = Pairs(last.before) \ {last.result}
        /\ \A i, j \in 1..Len(last.picked) :
             i < j /\ j <= last.orig.len => last.picked[i][2] >= last.picked[j][2]
        /\ Len(last.picked) >= last.orig.len =>
             /\ {last.picked[i] : i \in 1..last.orig.len} = Pairs(last.orig)
             /\ NoDuplicates(SubSeq(last.picked, 1, last.orig.len))
        /\ Len(last.picked) > last.orig.len => last.result = <<>>

\* three moves, two of them with the same best score, all picked, then None
C19_Witness ==
    /\ last.op = "pick"
    /\ last.orig.len = 3
    /\ last.orig.scores = <<7, -5, 7>>
    /\ Len(last.picked) = 4
    /\ last.result = <<>>

(***************************************************************************)
(* find_best_move of engine/search.rs: the root loop of iterative          *)
(* deepening. What negamax and the aspiration loop return for a root move, *)
(* the entry the table holds for the root and the time that passes while a *)
(* root move is searched are inputs                                        *)
(***************************************************************************)
\* move_score at the root before the first iteration: no table move, no killers
RootMoveScore(b, m) ==
    IF get_type(m) = QueenPromotion THEN 9000
    ELSE IF get_type(m) \in {Capture, EnPassant}
            /\ (get_type(m) = EnPassant \/ piece_at(b, get_dest(m)) # Empty)
    THEN 8000 + 10 * PieceValue(PieceIndex(IF get_type(m) = EnPassant THEN WP
                                           ELSE piece_at(b, get_dest(m))))
              - PieceValue(PieceIndex(piece_at(b, get_source(m))))
    ELSE 0

\* sort_unstable_by_key(Reverse(score)): every order of the moves that descends in score
RootOrders(b, moves) ==
    {[i \in 1..Len(moves) |-> moves[pi[i]]] :
        pi \in {f \in [1..Len(moves) -> 1..Len(moves)] :
                  /\ \A i, j \in 1..Len(moves) : f[i] = f[j] => i = j
                  /\ \A i, j \in 1..Len(moves) :
                       i < j => RootMoveScore(b, moves[f[i]]) >= RootMoveScore(b, moves[f[j]])}}

\* find_best_move that looks at the budget before the first iteration
FindBestMoveEnter_BudgetFirst(moves, final_depth, time_play) ==
    [pc |-> IF Len(moves) = 0 \/ time_play = 0 THEN "done" ELSE "begin",
     moves |-> moves, i |-> 1, depth |-> 1, final_depth |-> final_depth, stop |-> FALSE,
     best_eval |-> -INF, best_move |-> MoveNULL,
     local_best_eval |-> -INF, local_best_move |-> MoveNULL,
     time |-> 0, time_play |-> time_play, exhausted_at |-> 0, kept_move |-> MoveNULL]

\* lines 37-55: the locals, and the return of Move::default() when there is no move
FindBestMoveEnter(moves, final_depth, time_play) ==
    [pc |-> IF Len(moves) = 0 THEN "done" ELSE "begin",
     moves |-> moves, i |-> 1, depth |-> 1, final_depth |-> final_depth, stop |-> FALSE,
     best_eval |-> -INF, best_move |-> MoveNULL,
     local_best_eval |-> -INF, local_best_move |-> MoveNULL,
     time |-> 0, time_play |-> time_play, exhausted_at |-> 0, kept_move |-> MoveNULL]

\* 7k/8/8/8/8/8/8/K7 w - - 0 1: three king moves
FenCornerKing ==
    [layout |-> <<"7", "k", "/", "8", "/", "8", "/", "8", "/", "8", "/", "8", "/", "8", "/", "K", "7">>,
     side |-> "w", castling |-> <<"-">>, ep |-> <<"-">>,
     halfmoves |-> 0]

IterFENS == {FenCornerKing, FenStalemate, FenMated}
\* max_depth: Some(1), Some(3) or None
IterDepths == {1, 3, MAX_DEPTH}
\* time_play in ms: no time at all, or used up early or late in the search
IterBudgets == {0, 1, 4}
IterScores == {-10, 10, MATE}
MaxTime == 3

RootMoves_Pseudo(b) == generate_pseudo_moves(b, TRUE)

\* line 50: generate_legal_moves::<true>
RootMoves(b) == LegalMoves(b)

InitIter ==
    /\ played = 0
    /\ last = [op |-> "new"]
    /\ ref_halfmoves = 0
    /\ ref_rights = NONE
    /\ asp = AspIdle
    /\ data = SearchDataNew
    /\ obs = ObsNew
    /\ picker = PickerNew
    /\ table = TableNew
    /\ iter = IterIdle
    /\ \E f \in IterFENS : board = from_fen(f)

\* find_best_move is called on the position
IterEnter ==
    /\ iter.pc = "idle"
    /\ \E final_depth \in IterDepths : \E time_play \in IterBudgets :
         \E moves \in RootOrders(board, RootMoves(board)) :
           iter' = FindBestMoveEnter(moves, final_depth, time_play)
    /\ last' = [op |-> "find_best_move"]
    /\ UNCHANGED <<board, played, ref_halfmoves, ref_rights, asp, data, obs, picker, table>>

\* lines 57-65: the loop test, the table move to the front, the locals of the iteration
IterBegin ==
    /\ iter.pc = "begin"
    /\ IF iter.depth <= iter.final_depth /\ ~iter.stop
       THEN \E k \in 1..Len(iter.moves) :
              iter' = [iter EXCEPT !.pc = "moves", !.moves = Swap(@, 1, k), !.i = 1,
                                   !.local_best_eval = -INF, !.local_best_move = MoveNULL]
       ELSE iter' = [iter EXCEPT !.pc = "done"]
    /\ UNCHANGED <<board, played, last, ref_halfmoves, ref_rights, asp, data, obs, picker, table>>

\* lines 67-101 for one root move; the budget may run out while it is searched
IterMove ==
    /\ iter.pc = "moves"
    /\ iter.i <= Len(iter.moves)
    /\ \E eval \in IterScores : \E dt \in {0, 1} :
         /\ iter.time + dt <= MaxTime
         /\ iter' = [iter EXCEPT
               !.i = @ + 1,
               !.local_best_eval = IF eval > @ THEN eval ELSE @,
               !.local_best_move = IF eval > iter.local_best_eval THEN iter.moves[iter.i]
                                   ELSE @,
               !.time = @ + dt,
               !.exhausted_at = IF @ = 0 /\ iter.time + dt > iter.time_play
                                THEN iter.depth ELSE @,
               !.kept_move = IF iter.exhausted_at = 0 /\ iter.time + dt > iter.time_play
                             THEN iter.best_move ELSE @]
    /\ UNCHANGED <<board, played, last, ref_halfmoves, ref_rights, asp, data, obs, picker, table>>

\* lines 103-127: the result of the iteration, the time test, the mate break
IterEnd ==
    /\ iter.pc = "moves"
    /\ iter.i > Len(iter.moves)
    /\ iter' = [iter EXCEPT
          !.best_eval = iter.local_best_eval,
          !.best_move = iter.local_best_move,
          !.stop = @ \/ (iter.time * 2 > iter.time_play /\ iter.depth >= 5
                          /\ iter.final_depth = MAX_DEPTH),
          !.pc = IF Abs(iter.local_best_eval) > MATE - MAX_DEPTH THEN "done" ELSE "begin",
          !.depth = IF Abs(iter.local_best_eval) > MATE - MAX_DEPTH THEN @ ELSE @ + 1]
    /\ UNCHANGED <<board, played, last, ref_halfmoves, ref_rights, asp, data, obs, picker, table>>

NextIter == IterEnter \/ IterBegin \/ IterMove \/ IterEnd

SpecIter == InitIter /\ [][NextIter]_vars

\* C12: find_best_move on a root without a legal move, checkmate or stalemate, returns
\* the NULL move, Move(0), and no other move
C12_NoMoveAtRoot ==
    iter.pc = "done" /\ Len(LegalMoves(board)) = 0 => iter.best_move = MoveNULL

\* the search of the stalemate 7k/8/6QK/8/8/8/8/8 b is over
C12_Witness ==
    /\ iter.pc = "done"
    /\ board = from_fen(FenStalemate)
    /\ ~in_check(board)
    /\ Len(LegalMoves(board)) = 0

\* C13: when the time budget runs out while iteration d >= 2 is in progress, the move
\* find_best_move returns is the best move of the completed iteration d - 1
C13_StopKeepsPrevious ==
    iter.pc = "done" /\ iter.exhausted_at >= 2 => iter.best_move = iter.kept_move

C30_ProbeHitsWritten ==
    \A h \in TTHashes : probe(table, h) # {} => h \in last.written

(***************************************************************************)
(* The cached threats and checkers against the rules                       *)
(***************************************************************************)
\* the piece map with the king of the side to move taken off
RefNoKing(b) == [b.piece_map EXCEPT ![RefKing(b.piece_map, b.side)] = Empty]

\* the squares that at least one piece of a side attacks on the piece map pm
RefAttackedSquares(pm, by) ==
    UNION {IF PieceIndex(pm[s]) = PAWN THEN RefPawnAttacks(s, by)
           ELSE RefTargets(pm, s, PieceIndex(pm[s])) :
           s \in {t \in Squares : pm[t] # Empty /\ PieceColour(pm[t]) = by}}

\* C25: after from_fen, make_move and make_null_move a square is in threats exactly
\* when a piece of the side not to move attacks it on the board without the king of
\* the side to move; squares held by the attacker's own pieces count
C25_Threats ==
    board.threats = RefAttackedSquares(RefNoKing(board), Opp(board.side))

\* a move was made, and threats holds a square behind the king on a checking ray and
\* a square held by a defended piece of the attacker
C25_Witness ==
    /\ last.op = "make_move"
    /\ \E sq \in board.threats : ~RefAttacked(board.piece_map, sq, Opp(board.side))
    /\ board.threats \cap board.sides[Opp(board.side)] # {}

\* C28: after from_fen and every legal make_move or make_null_move the cached checkers
\* are non-empty exactly when in_check holds, and every square of checkers holds an
\* enemy piece that attacks the king of the side to move
C28_Checkers ==
    /\ (board.checkers # {}) <=> in_check(board)
    /\ \A sq \in board.checkers :
         /\ board.piece_map[sq] # Empty
         /\ PieceColour(board.piece_map[sq]) = Opp(board.side)
         /\ RefKing(board.piece_map, board.side) \in
              (IF PieceIndex(board.piece_map[sq]) = PAWN
               THEN RefPawnAttacks(sq, Opp(board.side))
               ELSE RefTargets(board.piece_map, sq, PieceIndex(board.piece_map[sq])))

\* a move that gives check with a slider
C28_Witness ==
    /\ last.op = "make_move"
    /\ in_check(board)
    /\ board.checkers \cap (board.pieces[ROOK] \cup board.pieces[BISHOP]
                            \cup board.pieces[QUEEN]) # {}

(***************************************************************************)
(* The slider attacks against the rays of the board                        *)
(***************************************************************************)
MaxBlockers == 2

\* the occupancies asked about: up to MaxBlockers occupied squares, and the boards with
\* up to one empty square
RECURSIVE Blockers(_)
Blockers(n) ==
    IF n = 0 THEN {{}} ELSE {o \cup {s} : o \in Blockers(n - 1), s \in Squares}

AttackOccs == Blockers(MaxBlockers) \cup {Squares \ {h} : h \in Squares} \cup {Squares}

InitAttacks ==
    /\ board = BoardNew
    /\ played = 0
    /\ ref_halfmoves = 0
    /\ ref_rights = NONE
    /\ asp = AspIdle
    /\ data = SearchDataNew
    /\ obs = ObsNew
    /\ picker = PickerNew
    /\ table = TableNew
    /\ iter = IterIdle
    /\ \E sq \in Squares : last = [op |-> "new", sq |-> sq]

\* rook_attacks, bishop_attacks and queen_attacks of the square on one occupancy
CallAttacks ==
    /\ last.op = "new"
    /\ \E occ \in AttackOccs :
         last' = [op |-> "attacks", sq |-> last.sq, occ |-> occ,
                  rook |-> rook_attacks(occ, last.sq),
                  bishop |-> bishop_attacks(occ, last.sq),
                  queen |-> queen_attacks(occ, last.sq)]
    /\ UNCHANGED <<board, played, ref_halfmoves, ref_rights, asp, data, obs, picker,
                   table, iter>>

NextAttacks == CallAttacks

SpecAttacks == InitAttacks /\ [][NextAttacks]_vars

\* the squares from sq along the steps, each up to and including the first occupied
\* square or the edge of the board
RefSlide(occ, sq, steps) ==
    UNION {{RefStep(sq, d[1], d[2], k) :
              k \in {n \in 1..7 :
                        /\ RefStep(sq, d[1], d[2], n) # 64
                        /\ \A j \in 1..(n - 1) : RefStep(sq, d[1], d[2], j) \notin occ}} :
           d \in steps}

\* C21: for every square and occupancy, rook_attacks is the squares along the rank and
\* the file up to and including the first occupied square or the edge, bishop_attacks
\* the same along the diagonals, queen_attacks their union, and the square itself is
\* never in the result
C21_SliderAttacks ==
    last.op = "attacks" =>
        /\ last.rook = RefSlide(last.occ, last.sq, RefRookSteps)
        /\ last.bishop = RefSlide(last.occ, last.sq, RefBishopSteps)
        /\ last.queen = last.rook \cup last.bishop
        /\ last.sq \notin last.queen

\* a slider blocked on both sides of one line, with its own square occupied too
C21_Witness ==
    /\ last.op = "attacks"
    /\ Cardinality(last.occ) = 2
    /\ last.occ \subseteq last.rook
    /\ \E a \in last.occ, b \in last.occ : a < last.sq /\ last.sq < b
    /\ Cardinality(last.rook) < Cardinality(rook_attacks({}, last.sq))

(***************************************************************************)
(* The history tables under any sequence of updates                        *)
(***************************************************************************)
MaxUpdates == 3

HistFENS == {FenPromotion, FenSearchA}

\* bonuses over the whole range of an i16
HistBonuses == {-32768, -8193, -1500, 0, 1, 8192, 16384, 32767}

QuietsOf(b) == SelectSeq(LegalMoves(b), LAMBDA m : ~is_capture(get_type(m)))
CapturesOf(b) == SelectSeq(LegalMoves(b), LAMBDA m : is_capture(get_type(m)))

\* the moves tried before the cutoff move m: none, one or two of the list, m not among them
TriedBefore(moves, m) ==
    LET others == SelectSeq(moves, LAMBDA x : x # m)
    IN  {SubSeq(others, 1, n) : n \in 0..Min({2, Len(others)})}

InitHist ==
    /\ \E f \in HistFENS : board = from_fen(f)
    /\ played = 0
    /\ ref_halfmoves = 0
    /\ ref_rights = NONE
    /\ asp = AspIdle
    /\ data = SearchDataNew
    /\ obs = ObsNew
    /\ picker = PickerNew
    /\ table = TableNew
    /\ iter = IterIdle
    /\ last = [op |-> "new", n |-> 0]

\* HistoryTable::update for a quiet cutoff move
HistoryStore ==
    /\ last.n < MaxUpdates
    /\ \E bonus \in HistBonuses, i \in 1..2 :
         \E quiets \in TriedBefore(QuietsOf(board), QuietsOf(board)[i]) :
            data' = [data EXCEPT !.history =
                        HistoryUpdate(@, board.side, QuietsOf(board)[i], bonus, quiets)]
    /\ last' = [op |-> "history", n |-> last.n + 1]
    /\ UNCHANGED <<board, played, ref_halfmoves, ref_rights, asp, obs, picker, table, iter>>

\* CaptureHistoryTable::update for a cutoff move that is a capture or a quiet move
CapHistoryStore ==
    /\ last.n < MaxUpdates
    /\ \E bonus \in HistBonuses, m \in {QuietsOf(board)[1], CapturesOf(board)[1]} :
         \E captures \in TriedBefore(CapturesOf(board), m) :
            data' = [data EXCEPT !.cap_history =
                        CapHistoryUpdate(@, board, m, bonus, captures)]
    /\ last' = [op |-> "cap_history", n |-> last.n + 1]
    /\ UNCHANGED <<board, played, ref_halfmoves, ref_rights, asp, obs, picker, table, iter>>

NextHist == HistoryStore \/ CapHistoryStore

SpecHist == InitHist /\ [][NextHist]_vars

I16 == -32768..32767

\* the next update of an entry holding old, with any bonus, stays inside an i16 at
\* every step: the clamp, the negation and the cast
NoOverflow(MAX, old) ==
    \A bonus \in HistBonuses :
        LET c_bonus == Clamp(bonus, -MAX, MAX)
        IN  /\ MAX \in I16 /\ -c_bonus \in I16
            /\ taper_wide(MAX, c_bonus, old) \in I16
            /\ taper_wide(MAX, -c_bonus, old) \in I16

\* C22: from all-zero tables, after any sequence of updates with any i16 bonuses, every
\* quiet-history entry is within [-MAX_HISTORY, MAX_HISTORY], every capture-history
\* entry within [-MAX_CAP_HISTORY, MAX_CAP_HISTORY], and no update overflows the 16-bit
\* entry
C22_HistoryBounded ==
    /\ \A k \in DOMAIN data.history :
          /\ data.history[k] \in (-MAX_HISTORY)..MAX_HISTORY
          /\ NoOverflow(MAX_HISTORY, data.history[k])
    /\ \A k \in DOMAIN data.cap_history :
          /\ data.cap_history[k] \in (-MAX_CAP_HISTORY)..MAX_CAP_HISTORY
          /\ NoOverflow(MAX_CAP_HISTORY, data.cap_history[k])
    /\ NoOverflow(MAX_HISTORY, 0) /\ NoOverflow(MAX_CAP_HISTORY, 0)

\* both tables hold an entry at its limit after updates whose bonuses were beyond it
C22_Witness ==
    /\ last.op \in {"history", "cap_history"}
    /\ \E k \in DOMAIN data.history : data.history[k] \in {-MAX_HISTORY, MAX_HISTORY}
    /\ \E k \in DOMAIN data.cap_history :
          data.cap_history[k] \in {-MAX_CAP_HISTORY, MAX_CAP_HISTORY}

(***************************************************************************)
(* The repetition stack during a search (engine/search.rs): the calls of   *)
(* find_best_move, negamax and quiescence as frames, each at its place in  *)
(* the code, with the pushes and pops the code makes. Scores, table hits   *)
(* and the number of moves of a node are inputs, so every early return and *)
(* every break can happen. data.stack is the stack of keys                 *)
(***************************************************************************)
MaxRootDepth == 4
MaxNodeMoves == 2
MaxQuiescence == 1

\* the stack "position ... moves" leaves: one key per move played
StackHistories == {<<>>, <<1, 2>>}

\* the key of the position after move i of the node at this nesting
NodeKey(level, i) == 10 * (level + 1) + i

Frame(fn, depth, stack) ==
    [fn |-> fn, depth |-> depth, pc |-> "entry", moves |-> 0, i |-> 0, calls |-> 0,
     at_entry |-> stack]

Top == iter.frames[Len(iter.frames)]
Below == SubSeq(iter.frames, 1, Len(iter.frames) - 1)
QuiescenceFrames == Cardinality({k \in DOMAIN iter.frames : iter.frames[k].fn = "quiescence"})

InitStack ==
    /\ board = BoardNew
    /\ played = 0
    /\ last = [op |-> "new"]
    /\ ref_halfmoves = 0
    /\ ref_rights = NONE
    /\ asp = AspIdle
    /\ \E h \in StackHistories : data = [SearchDataNew EXCEPT !.stack = h]
    /\ obs = ObsNew
    /\ picker = PickerNew
    /\ table = TableNew
    /\ iter = IterIdle

\* find_best_move lines 37-53: the key of the root is pushed, then the moves are
\* generated and the function returns if there is none
SearchEnter ==
    /\ iter.pc = "idle"
    /\ \E final_depth \in 1..MaxRootDepth, moves \in 0..MaxNodeMoves :
         iter' = [pc |-> IF moves = 0 THEN "done" ELSE "root", entry |-> data.stack,
                  depth |-> 1, final_depth |-> final_depth, moves |-> moves, i |-> 0,
                  frames |-> <<>>, balanced |-> TRUE]
    /\ data' = [data EXCEPT !.stack = Append(@, 0)]
    /\ last' = [op |-> "find_best_move"]
    /\ UNCHANGED <<board, played, ref_halfmoves, ref_rights, asp, obs, picker, table>>

\* lines 67-93: make_move, stack.push(new_board.hash.0), the call of negamax
RootPush ==
    /\ iter.pc = "root" /\ iter.i < iter.moves
    /\ data' = [data EXCEPT !.stack = Append(@, NodeKey(0, iter.i))]
    /\ iter' = [iter EXCEPT !.pc = "call",
                            !.frames = <<Frame("negamax", iter.depth - 1, data'.stack)>>]
    /\ UNCHANGED <<board, played, last, ref_halfmoves, ref_rights, asp, obs, picker, table>>

\* lines 95-100: stack.pop() once negamax is back
RootPop ==
    /\ iter.pc = "call" /\ iter.frames = <<>>
    /\ data' = [data EXCEPT !.stack = SubSeq(@, 1, Len(@) - 1)]
    /\ iter' = [iter EXCEPT !.pc = "root", !.i = @ + 1]
    /\ UNCHANGED <<board, played, last, ref_halfmoves, ref_rights, asp, obs, picker, table>>

\* lines 103-129: the end of an iteration; the mate break, the depth limit or the next depth
RootIterationEnd ==
    /\ iter.pc = "root" /\ iter.i = iter.moves
    /\ \E mate \in BOOLEAN :
         iter' = IF mate \/ iter.depth + 1 > iter.final_depth
                 THEN [iter EXCEPT !.pc = "done"]
                 ELSE [iter EXCEPT !.depth = @ + 1, !.i = 0]
    /\ UNCHANGED <<board, played, last, data, ref_halfmoves, ref_rights, asp, obs, picker, table>>

\* negamax lines 183-227 and 308-329, quiescence lines 352-371 and 407-421: a return
\* before the loop (table cutoff, draw, stand pat, null-move cutoff, no move) or after
\* it (all moves tried, or the break that follows a pop)
NodeReturn ==
    /\ iter.pc = "call" /\ iter.frames # <<>>
    /\ \/ Top.pc \in {"entry", "null"}
       \/ Top.pc = "loop" /\ (Top.i = Top.moves \/ Top.i >= 1)
    /\ iter' = [iter EXCEPT !.frames = Below,
                            !.balanced = @ /\ data.stack = Top.at_entry]
    /\ UNCHANGED <<board, played, last, data, ref_halfmoves, ref_rights, asp, obs, picker, table>>

\* negamax lines 195-197: at depth 0 the value of quiescence is returned
NegamaxQuiescence ==
    /\ iter.pc = "call" /\ iter.frames # <<>>
    /\ Top.fn = "negamax" /\ Top.pc = "entry" /\ Top.depth = 0
    /\ iter' = [iter EXCEPT !.frames[Len(iter.frames)].fn = "quiescence"]
    /\ UNCHANGED <<board, played, last, data, ref_halfmoves, ref_rights, asp, obs, picker, table>>

\* negamax lines 202-219: the null move is searched without a push
NegamaxNullMove ==
    /\ iter.pc = "call" /\ iter.frames # <<>>
    /\ Top.fn = "negamax" /\ Top.pc = "entry" /\ Top.depth >= 3
    /\ iter' = [iter EXCEPT !.frames =
                   Append([@ EXCEPT ![Len(@)].pc = "null"],
                          Frame("negamax", Top.depth - 3, data.stack))]
    /\ UNCHANGED <<board, played, last, data, ref_halfmoves, ref_rights, asp, obs, picker, table>>

\* negamax lines 221-240, quiescence lines 380-387: the moves of the node
NodeMoves ==
    /\ iter.pc = "call" /\ iter.frames # <<>>
    /\ Top.pc \in {"entry", "null"}
    /\ Top.fn = "negamax" => Top.depth >= 1
    /\ \E moves \in 1..MaxNodeMoves :
         iter' = [iter EXCEPT !.frames[Len(iter.frames)] =
                                  [@ EXCEPT !.pc = "loop", !.moves = moves, !.i = 0]]
    /\ UNCHANGED <<board, played, last, data, ref_halfmoves, ref_rights, asp, obs, picker, table>>

\* negamax lines 242-245 and the first call, quiescence lines 389-393: make_move,
\* stack.push(new_board.hash.0), the call for the child
NodePush ==
    /\ iter.pc = "call" /\ iter.frames # <<>>
    /\ Top.pc = "loop" /\ Top.i < Top.moves
    /\ Top.fn = "quiescence" => QuiescenceFrames < MaxQuiescence + 1
    /\ data' = [data EXCEPT !.stack = Append(@, NodeKey(Len(iter.frames), Top.i))]
    /\ iter' = [iter EXCEPT !.frames =
                   Append([@ EXCEPT ![Len(@)].pc = "child", ![Len(@)].calls = 1],
                          IF Top.fn = "quiescence"
                          THEN Frame("quiescence", 0, data'.stack)
                          ELSE Frame("negamax",
                                     IF Top.depth >= 3 /\ Top.i >= 1 THEN Top.depth - 2
                                     ELSE Top.depth - 1,
                                     data'.stack))]
    /\ UNCHANGED <<board, played, last, ref_halfmoves, ref_rights, asp, obs, picker, table>>

\* negamax lines 251-296: the re-searches of a move after the first one
NegamaxResearch ==
    /\ iter.pc = "call" /\ iter.frames # <<>>
    /\ Top.fn = "negamax" /\ Top.pc = "child" /\ Top.i >= 1
    /\ Top.calls < (IF Top.depth >= 3 THEN 3 ELSE 2)
    /\ iter' = [iter EXCEPT !.frames =
                   Append([@ EXCEPT ![Len(@)].calls = @ + 1],
                          Frame("negamax", Top.depth - 1, data.stack))]
    /\ UNCHANGED <<board, played, last, data, ref_halfmoves, ref_rights, asp, obs, picker, table>>

\* negamax line 307, quiescence line 394: stack.pop()
NodePop ==
    /\ iter.pc = "call" /\ iter.frames # <<>>
    /\ Top.pc = "child"
    /\ data' = [data EXCEPT !.stack = SubSeq(@, 1, Len(@) - 1)]
    /\ iter' = [iter EXCEPT !.frames[Len(iter.frames)] =
                                [@ EXCEPT !.pc = "loop", !.i = @ + 1]]
    /\ UNCHANGED <<board, played, last, ref_halfmoves, ref_rights, asp, obs, picker, table>>

NextStack ==
    \/ SearchEnter \/ RootPush \/ RootPop \/ RootIterationEnd
    \/ NodeReturn \/ NegamaxQuiescence \/ NegamaxNullMove \/ NodeMoves
    \/ NodePush \/ NegamaxResearch \/ NodePop

SpecStack == InitStack /\ [][NextStack]_vars

\* every negamax and quiescence call that has returned left the stack as it found it
CallsBalanced == iter.pc # "idle" => iter.balanced

\* C26: every push onto the repetition stack during a search is matched by a pop: when
\* a negamax or quiescence call returns the stack is as it was at its entry, and when
\* the root search returns the stack holds exactly the keys it held before the search
C26_StackRestored ==
    /\ CallsBalanced
    /\ iter.pc = "done" => data.stack = iter.entry

(***************************************************************************)
(* Board::see against the exchange on the destination square               *)
(***************************************************************************)
\* 4k3/8/8/3p4/2p5/2N5/8/4K3 w - - 0 1: the pawn on c4 stands behind d5 and does not attack it
FenSeeBehind ==
    [layout |-> <<"4", "k", "3", "/", "8", "/", "8", "/", "3", "p", "4", "/", "2", "p", "5", "/", "2", "N", "5", "/", "8", "/", "4", "K", "3">>,
     side |-> "w", castling |-> <<"-">>, ep |-> <<"-">>,
     halfmoves |-> 0]

\* 4k3/8/4p3/3p4/8/2N5/8/4K3 w - - 0 1: the pawn on e6 defends d5
FenSeeDefended ==
    [layout |-> <<"4", "k", "3", "/", "8", "/", "4", "p", "3", "/", "3", "p", "4", "/", "8", "/", "2", "N", "5", "/", "8", "/", "4", "K", "3">>,
     side |-> "w", castling |-> <<"-">>, ep |-> <<"-">>,
     halfmoves |-> 0]

\* 3rk3/3r4/8/3p4/8/8/3R4/3RK3 w - - 0 1: two rooks a side on the d file
FenSeeRooks ==
    [layout |-> <<"3", "r", "k", "3", "/", "3", "r", "4", "/", "8", "/", "3", "p", "4", "/", "8", "/", "8", "/", "3", "R", "4", "/", "3", "R", "K", "3">>,
     side |-> "w", castling |-> <<"-">>, ep |-> <<"-">>,
     halfmoves |-> 0]

\* 4k3/8/2b5/3p4/4P3/8/6B1/4K3 w - - 0 1: a bishop behind the pawn on e4
FenSeeBishops ==
    [layout |-> <<"4", "k", "3", "/", "8", "/", "2", "b", "5", "/", "3", "p", "4", "/", "4", "P", "3", "/", "8", "/", "6", "B", "1", "/", "4", "K", "3">>,
     side |-> "w", castling |-> <<"-">>, ep |-> <<"-">>,
     halfmoves |-> 0]

\* 8/8/3k4/3p4/8/2N5/8/4K3 w - - 0 1: the king alone defends d5
FenSeeKing ==
    [layout |-> <<"8", "/", "8", "/", "3", "k", "4", "/", "3", "p", "4", "/", "8", "/", "2", "N", "5", "/", "8", "/", "4", "K", "3">>,
     side |-> "w", castling |-> <<"-">>, ep |-> <<"-">>,
     halfmoves |-> 0]

\* 4k3/8/8/8/1pP5/8/3P4/4K3 b - c3 0 1: en passant onto c3, which the pawn on d2 defends
FenSeeEnPassant ==
    [layout |-> <<"4", "k", "3", "/", "8", "/", "8", "/", "8", "/", "1", "p", "P", "5", "/", "8", "/", "3", "P", "4", "/", "4", "K", "3">>,
     side |-> "b", castling |-> <<"-">>, ep |-> <<"c", "3">>,
     halfmoves |-> 0]

\* 4k3/8/8/2P5/3P4/8/4n3/4K3 b - - 0 1: the white pawn on c5 stands ahead of d4 and does not attack it
FenSeeAhead ==
    [layout |-> <<"4", "k", "3", "/", "8", "/", "8", "/", "2", "P", "5", "/", "3", "P", "4", "/", "8", "/", "4", "n", "3", "/", "4", "K", "3">>,
     side |-> "b", castling |-> <<"-">>, ep |-> <<"-">>,
     halfmoves |-> 0]

SeeFENS == {FenSeeBehind, FenSeeDefended, FenSeeRooks, FenSeeBishops, FenSeeKing,
            FenSeeEnPassant, FenSeeAhead, FenPromotion}

SeeThresholds == {-1012, -500, -338, -337, -336, -99, -1, 0, 1, 97, 98, 99, 435, 436, 1348}

InitSee ==
    /\ \E f \in SeeFENS : board = from_fen(f)
    /\ played = 0
    /\ last = [op |-> "new"]
    /\ ref_halfmoves = 0
    /\ ref_rights = NONE
    /\ asp = AspIdle
    /\ data = SearchDataNew
    /\ obs = ObsNew
    /\ picker = PickerNew
    /\ table = TableNew
    /\ iter = IterIdle

\* see(m, threshold) for a legal capture of the position
CallSee ==
    /\ last.op = "new"
    /\ \E k \in 1..Len(CapturesOf(board)), threshold \in SeeThresholds :
         last' = [op |-> "see", m |-> CapturesOf(board)[k], threshold |-> threshold,
                  result |-> see(board, CapturesOf(board)[k], threshold)]
    /\ UNCHANGED <<board, played, ref_halfmoves, ref_rights, asp, data, obs, picker,
                   table, iter>>

NextSee == CallSee

SpecSee == InitSee /\ [][NextSee]_vars

\* the pieces of a side that attack dest on the piece map pm, pawns in their own
\* capture direction, sliders along free lines
RefAttackers(pm, dest, side) ==
    {s \in Squares :
        /\ pm[s] # Empty /\ PieceColour(pm[s]) = side
        /\ IF PieceIndex(pm[s]) = PAWN THEN dest \in RefPawnAttacks(s, side)
           ELSE dest \in RefTargets(pm, s, PieceIndex(pm[s]))}

RECURSIVE RefGain(_, _, _)
\* what side wins on dest when it is its turn to recapture: it may stop, or take with
\* its least valuable attacker (the king only when nothing can take back) and then
\* give up what the other side wins in turn
RefGain(pm, dest, side) ==
    IF RefAttackers(pm, dest, side) = {} THEN 0
    ELSE LET kind == Min({PieceIndex(pm[s]) : s \in RefAttackers(pm, dest, side)})
             src == Min({s \in RefAttackers(pm, dest, side) : PieceIndex(pm[s]) = kind})
             after == [pm EXCEPT ![src] = Empty, ![dest] = pm[src]]
         IN  IF kind = KING /\ RefAttackers(after, dest, Opp(side)) # {} THEN 0
             ELSE Max({0, PieceValue(PieceIndex(pm[dest])) - RefGain(after, dest, Opp(side))})

\* the material balance of the exchange the move m starts, for the side that moves
RefSee(b, m) ==
    LET kind == get_type(m)
        cap == b.piece_map[get_dest(m)]
        won == IF kind = EnPassant THEN PieceValue(PAWN)
               ELSE (IF cap = Empty THEN 0 ELSE PieceValue(PieceIndex(cap)))
                    + (IF is_promotion(kind)
                       THEN PieceValue(PieceIndex(get_promotion(kind, b.side)))
                            - PieceValue(PAWN)
                       ELSE 0)
    IN  won - RefGain(RefApply(b.piece_map, get_source(m), get_dest(m), kind),
                      get_dest(m), Opp(b.side))

\* C24: for every capture m and threshold t, see(m, t) is true exactly when the
\* material balance for the moving side is at least t after the exchange on the
\* destination square, in which the sides recapture in turn with their least valuable
\* piece that attacks the square (pawns only in their own capture direction, sliders
\* uncovered as pieces leave) and either side may stop
C24_SeeIsExchange ==
    last.op = "see" => (last.result <=> RefSee(board, last.m) >= last.threshold)

(***************************************************************************)
(* Board::evaluate over an EvalTable (board.rs, engine/network.rs): the    *)
(* accumulators of a cell are brought from the cell's snapshot to the      *)
(* position by the features fill_diff lists. An accumulator has Lanes      *)
(* values of 16 bits; the weights of the network file are a fixed table of *)
(* i16 values. data.cache holds the cells an evaluation has touched, every *)
(* other cell is EvalEntryDefault                                          *)
(***************************************************************************)
Lanes == 2
MaxEvals == 3

INPUT_SIZE == 768

BUCKETS ==
    << 0, 1, 2, 3, 11, 10, 9, 8,
       4, 4, 5, 5, 13, 13, 12, 12,
       6, 6, 6, 6, 14, 14, 14, 14,
       6, 6, 6, 6, 14, 14, 14, 14,
       7, 7, 7, 7, 15, 15, 15, 15,
       7, 7, 7, 7, 15, 15, 15, 15,
       7, 7, 7, 7, 15, 15, 15, 15,
       7, 7, 7, 7, 15, 15, 15, 15 >>

\* sq ^ 7 mirrors the file, sq ^ 56 the rank
FlipFile(sq) == (sq \div 8) * 8 + (7 - (sq % 8))
FlipRank(sq) == (7 - (sq \div 8)) * 8 + (sq % 8)

get_bucket(SIDE, king_sq) == BUCKETS[(IF SIDE = 1 THEN FlipRank(king_sq) ELSE king_sq) + 1]

get_base_index(SIDE, side, pc, king_sq) ==
    LET ksq == IF king_sq % 8 > 3 THEN FlipFile(king_sq) ELSE king_sq
    IN  IF SIDE = 0
        THEN INPUT_SIZE * get_bucket(0, ksq) + <<0, 384>>[side + 1] + 64 * pc
        ELSE INPUT_SIZE * get_bucket(1, ksq) + <<384, 0>>[side + 1] + 64 * pc

\* the index of the feature (side, piece, sq) for a perspective: wbase + (sq ^ wflip)
\* for White, bbase + (sq ^ bflip) for Black, bflip carrying the ^ 56
Feature(SIDE, side, pc, sq, king_sq) ==
    LET filed == IF king_sq % 8 > 3 THEN FlipFile(sq) ELSE sq
    IN  get_base_index(SIDE, side, pc, king_sq) + (IF SIDE = 1 THEN FlipRank(filed) ELSE filed)

\* NNUE.feature_weights and NNUE.feature_bias, lane by lane
Weight(f, lane) == AsI16((f + 1) * (7919 + 1000 * lane))
Bias(lane) == AsI16(1000 * lane - 17)

AccumulatorDefault == [lane \in 1..Lanes |-> Bias(lane)]

\* EvalTable::default: an empty snapshot, both accumulators at the bias
EvalEntryDefault ==
    [bbs |-> [sides |-> [c \in 0..1 |-> {}], pieces |-> [k \in PAWN..KING |-> {}]],
     white |-> AccumulatorDefault, black |-> AccumulatorDefault]

EvalCell(cache, cell) == IF cell \in DOMAIN cache THEN cache[cell] ELSE EvalEntryDefault

\* the squares fill_diff walks for side and piece: (new & !old, old & !new)
EvalDiff(b, bbs, side, pc) ==
    LET old_bb == bbs.pieces[pc] \cap bbs.sides[side]
        new_bb == b.pieces[pc] \cap b.sides[side]
    IN  [add |-> new_bb \ old_bb, sub |-> old_bb \ new_bb]

\* fill_diff without the features to take out
fill_diff_NoSubs(b, bbs, SIDE) ==
    [adds |-> {<<side, pc, sq>> \in (0..1) \X (PAWN..KING) \X Squares :
                  sq \in EvalDiff(b, bbs, side, pc).add},
     subs |-> {}]

\* fill_diff for one perspective: the features to add and to take out, each named by
\* its side, piece and square
fill_diff(b, bbs, SIDE) ==
    [adds |-> {<<side, pc, sq>> \in (0..1) \X (PAWN..KING) \X Squares :
                  sq \in EvalDiff(b, bbs, side, pc).add},
     subs |-> {<<side, pc, sq>> \in (0..1) \X (PAWN..KING) \X Squares :
                  sq \in EvalDiff(b, bbs, side, pc).sub}]

RECURSIVE SumWeights(_, _, _, _)
\* the 16-bit wrapping sum of one lane of the weight rows of the features fs
SumWeights(fs, SIDE, king_sq, lane) ==
    IF fs = {} THEN 0
    ELSE LET f == CHOOSE x \in fs : TRUE
         IN  AsI16(Weight(Feature(SIDE, f[1], f[2], f[3], king_sq), lane)
                   + SumWeights(fs \ {f}, SIDE, king_sq, lane))

\* Accumulator::update_multi: _mm256_add_epi16 of every added row, _mm256_sub_epi16 of
\* every row taken out
update_multi(acc, diff, SIDE, king_sq) ==
    [lane \in 1..Lanes |->
        AsI16(acc[lane] + SumWeights(diff.adds, SIDE, king_sq, lane)
              - SumWeights(diff.subs, SIDE, king_sq, lane))]

EvalCellOf(b) ==
    <<get_bucket(0, king_square(b, White)), get_bucket(1, king_square(b, Black))>>

\* Board::evaluate: the entry of the cell after the call
evaluate_entry(b, entry) ==
    [bbs |-> [sides |-> b.sides, pieces |-> b.pieces],
     white |-> update_multi(entry.white, fill_diff(b, entry.bbs, 0), 0,
                            king_square(b, White)),
     black |-> update_multi(entry.black, fill_diff(b, entry.bbs, 1), 1,
                            king_square(b, Black))]

EvalFENS == {FenSearchA, FenSearchB, FenPromotion, FenPinned, FenHalfmoves, FenRookCapture,
             FenStalemate, FenMated, FenCornerKing, FenStart}

\* the positions evaluated: the listed ones and every position one legal move after
\* three of them
EvalBoards ==
    {from_fen(f) : f \in EvalFENS}
        \cup UNION {{make_move(from_fen(f), LegalMoves(from_fen(f))[k]) :
                       k \in 1..Len(LegalMoves(from_fen(f)))} :
                    f \in {FenCornerKing, FenMated, FenHalfmoves}}

InitEval ==
    /\ board = BoardNew
    /\ played = 0
    /\ last = [op |-> "new", n |-> 0]
    /\ ref_halfmoves = 0
    /\ ref_rights = NONE
    /\ asp = AspIdle
    /\ data = SearchDataNew
    /\ obs = ObsNew
    /\ picker = PickerNew
    /\ table = TableNew
    /\ iter = IterIdle

\* board.evaluate(&mut data.cache) on one of the positions
Evaluate ==
    /\ last.n < MaxEvals
    /\ \E b \in EvalBoards :
         /\ board' = b
         /\ data' = [data EXCEPT !.cache =
                        [c \in DOMAIN @ \cup {EvalCellOf(b)} |->
                            IF c = EvalCellOf(b)
                            THEN evaluate_entry(b, EvalCell(@, EvalCellOf(b)))
                            ELSE @[c]]]
         /\ last' = [op |-> "evaluate", n |-> last.n + 1, cell |-> EvalCellOf(b),
                     before |-> EvalCell(data.cache, EvalCellOf(b))]
    /\ UNCHANGED <<played, ref_halfmoves, ref_rights, asp, obs, picker, table, iter>>

NextEval == Evaluate

SpecEval == InitEval /\ [][NextEval]_vars

\* the accumulator of a perspective from scratch: the bias and the weight row of every
\* piece on the board, added with 16-bit wrapping
RefAccumulator(b, SIDE) ==
    [lane \in 1..Lanes |->
        AsI16(Bias(lane)
              + SumWeights({<<PieceColour(b.piece_map[sq]), PieceIndex(b.piece_map[sq]), sq>> :
                              sq \in {t \in Squares : b.piece_map[t] # Empty}},
                           SIDE, king_square(b, IF SIDE = 0 THEN White ELSE Black), lane))]

\* C23: after every evaluate call of a sequence sharing one EvalTable, the white and
\* black accumulators of the cell the call used equal the bias plus the weight rows of
\* exactly the features active in the position, as recomputed from scratch, and the
\* snapshot of the cell equals the bitboards of the position
C23_AccumulatorsFromScratch ==
    last.op = "evaluate" =>
        /\ data.cache[last.cell].white = RefAccumulator(board, 0)
        /\ data.cache[last.cell].black = RefAccumulator(board, 1)
        /\ data.cache[last.cell].bbs = [sides |-> board.sides, pieces |-> board.pieces]

\* the call found the snapshot of another position in its cell, with features to add
\* and features to take out, and the king of the perspective on another square
C23_Witness ==
    /\ last.op = "evaluate"
    /\ fill_diff(board, last.before.bbs, 0).adds # {}
    /\ fill_diff(board, last.before.bbs, 0).subs # {}
    /\ last.before.bbs.pieces[KING] \cap last.before.bbs.sides[White]
         # board.pieces[KING] \cap board.sides[White]

====
